---- MODULE Spec2Model ----
(***************************************************************************)
(* State-machine model of the agricultural equipment store backend:        *)
(* the product, inventory and sales use cases together with the HTTP       *)
(* handlers that validate their requests, over a document store.           *)
(*                                                                         *)
(* Conventions                                                             *)
(*  - money is counted in whole units (the float64 products of the code    *)
(*    are exact on the small integers used here);                          *)
(*  - time is the clock `now`, in whole seconds (the resolution of the      *)
(*    Unix timestamps in the tokens); created_at / updated_at and the      *)
(*    generated uuids are not part of the state: no modelled decision      *)
(*    reads them;                                                          *)
(*  - the file system is the set `disk` of the files it holds, each named  *)
(*    by its cleaned path;                                                 *)
(*  - a handler is cut into steps at its storage calls, so that two        *)
(*    requests interleave at the granularity of single reads and writes;   *)
(*  - every storage call may fail (StorageFailure, HTTP 500).              *)
(***************************************************************************)
EXTENDS Integers, Sequences, FiniteSets, TLC

VARIABLES
    products,   \* the "products" collection: id -> document
    sales,      \* the "sales" collection, in insertion order
    pc,         \* per request slot: position inside the running handler
    call,       \* per request slot: the handler's locals (req, product)
    resp,       \* the HTTP response written by the last step, if any
    faulted,    \* history: some storage call has failed so far
    W,          \* the request slots that may run handlers (fixed per run)
    users,      \* the "users" collection: id -> document
    categories, \* the "categories" collection: id -> document
    now,        \* the server clock, in seconds
    auth,       \* per request slot: the Authorization header of its request
    tokens,     \* the tokens handed out by Login so far (what clients hold)
    disk        \* the files on the server's disk, by cleaned path

vars == <<products, sales, pc, call, resp, faulted, W, users, categories, now, auth, tokens, disk>>

\* the state outside the catalog, the inventory and the sales
rest == <<users, categories, now, auth, tokens, disk>>

\* the same without the disk
accounts == <<users, categories, now, auth, tokens>>

----------------------------------------------------------------------------
(* Bounds *)

MaxStock == 2
MaxSales == 2

MaxURLs == 2
MaxFiles == 2

MaxDays == 1
MaxTokens == 1

\* 24 * time.Hour, in seconds
Hours24 == 86400

ProductIDs == {"p1", "p2"}
CatalogIDs == {"p1"}
MissingID == "p9"
URLs == {"u1", "u2"}
Slots == {1, 2}
Prices == {1, 2}
Quantities == 0..MaxStock
StockInputs == -1..MaxStock

----------------------------------------------------------------------------
(* Domain types *)

URLImage(url, primary) ==
    [url |-> url, file_path |-> <<>>, is_url |-> TRUE, is_primary |-> primary]

UploadedImage(file_path, primary) ==
    [url |-> "file", file_path |-> file_path, is_url |-> FALSE, is_primary |-> primary]

Product(name, description, price, category, brand, image_url, images, stock, is_active) ==
    [name |-> name, description |-> description, price |-> price,
     category |-> category, brand |-> brand, image_url |-> image_url,
     images |-> images, stock |-> stock, is_active |-> is_active]

Sale(product_id, quantity, price, total, date_sold) ==
    [product_id |-> product_id, quantity |-> quantity, price |-> price, total |-> total,
     date_sold |-> date_sold]

NoCall == [op |-> "none"]
NoResp == [w |-> 0, op |-> "none", kind |-> "none", req |-> [none |-> TRUE]]

Response(w, op, req, kind) == [w |-> w, op |-> op, kind |-> kind, req |-> req]

----------------------------------------------------------------------------
(* Request validation (gin binding tags) *)

\* binding:"required": the value is not the zero value of its type
Required(v, zero) == v # zero

ValidCreateSaleRequest(req) ==
    /\ Required(req.product_id, "")
    /\ Required(req.quantity, 0) /\ req.quantity > 0
    /\ Required(req.price, 0) /\ req.price > 0

\* variant: the stock is bound but its sign is not checked
ValidStockUpdateRequest_AnySign(req) == Required(req.stock, 0)

ValidStockUpdateRequest(req) ==
    Required(req.stock, 0) /\ req.stock >= 0

----------------------------------------------------------------------------
(* File store: utils.UploadConfig *)

\* a path is the sequence of the pieces of its text, "/" being a piece of its
\* own; the text of the path is their concatenation
UploadDir == <<"uploads", "/", "products">>

MaxFileSize == 5 * 1024 * 1024

AllowedImageTypes == {"image/jpeg", "image/jpg", "image/png", "image/gif", "image/webp"}

\* allowedExts, each without its leading dot
AllowedExts == {"jpg", "jpeg", "png", "gif", "webp"}

\* filepath.Ext of a file name given as its parts between the dots: the last
\* part (its dot left out), nothing for a name without a dot
Ext(filename) == IF Len(filename) < 2 THEN "" ELSE filename[Len(filename)]

\* strings.ToLower on the extensions that occur
ToLower(s) ==
    CASE s = "JPG" -> "jpg"
      [] s = "Png" -> "png"
      [] s = "TXT" -> "txt"
      [] OTHER -> s

\* variant: the size is not looked at
ValidateFile_AnySize(header) ==
    IF header.content_type \notin AllowedImageTypes THEN "UnsupportedType"
    ELSE IF ToLower(Ext(header.filename)) \notin AllowedExts THEN "UnsupportedType"
    ELSE "nil"

\* UploadConfig.ValidateFile: "nil" or the error it returns
ValidateFile(header) ==
    IF header.size > MaxFileSize THEN "TooLarge"
    ELSE IF header.content_type \notin AllowedImageTypes THEN "UnsupportedType"
    ELSE IF ToLower(Ext(header.filename)) \notin AllowedExts THEN "UnsupportedType"
    ELSE "nil"

\* strings.HasPrefix
HasPrefix(s, prefix) == Len(s) >= Len(prefix) /\ SubSeq(s, 1, Len(prefix)) = prefix

RECURSIVE Segments(_, _, _)
\* the names between the separators of a path
Segments(path, done, name) ==
    IF path = <<>> THEN (IF name = <<>> THEN done ELSE Append(done, name))
    ELSE IF Head(path) = "/"
    THEN Segments(Tail(path), IF name = <<>> THEN done ELSE Append(done, name), <<>>)
    ELSE Segments(Tail(path), done, Append(name, Head(path)))

RECURSIVE Resolve(_, _)
\* the directory walk of the operating system: ".." leaves the directory reached
Resolve(segments, reached) ==
    IF segments = <<>> THEN reached
    ELSE IF Head(segments) = <<"..">>
    THEN Resolve(Tail(segments),
                 IF reached = <<>> THEN <<>> ELSE SubSeq(reached, 1, Len(reached) - 1))
    ELSE Resolve(Tail(segments), Append(reached, Head(segments)))

\* the file that a path names to os.Create and os.Remove
Located(path) == Resolve(Segments(path, <<>>, <<>>), <<>>)

\* the file names SaveFile can still generate (time, uuid and extension in one piece)
FileNamePool == <<"f1", "f2", "f3">>

FreeNames(d) ==
    {i \in DOMAIN FileNamePool : Located(UploadDir \o <<"/", FileNamePool[i]>>) \notin d}

\* filepath.Join(uc.UploadDir, newFilename) for a name not yet in use
NewFilePath(d) ==
    UploadDir \o <<"/", FileNamePool[CHOOSE i \in FreeNames(d) : \A j \in FreeNames(d) : i <= j]>>

\* how the copy of an upload ends: written, or failed in header.Open, os.Create or io.Copy
IOOutcomes == {"nil", "open", "create", "copy"}

\* UploadConfig.SaveFile: its error, the path of the result and the disk after
\* it; a failed io.Copy leaves the file it created
SaveFile(d, header, io) ==
    IF ValidateFile(header) # "nil"
    THEN [err |-> ValidateFile(header), file_path |-> <<>>, disk |-> d]
    ELSE IF io \in {"open", "create"}
    THEN [err |-> "SaveFailed", file_path |-> <<>>, disk |-> d]
    ELSE IF io = "copy"
    THEN [err |-> "SaveFailed", file_path |-> <<>>, disk |-> d \cup {Located(NewFilePath(d))}]
    ELSE [err |-> "nil", file_path |-> NewFilePath(d), disk |-> d \cup {Located(NewFilePath(d))}]

\* UploadConfig.DeleteFile: its error and the disk after it
DeleteFile(d, filePath, removeOK) ==
    IF filePath = <<>> THEN [err |-> "nil", disk |-> d]
    ELSE IF ~HasPrefix(filePath, UploadDir)
    THEN [err |-> "OutsideUploadDir", disk |-> d]
    ELSE IF removeOK /\ Located(filePath) \in d
    THEN [err |-> "nil", disk |-> d \ {Located(filePath)}]
    ELSE [err |-> "RemoveFailed", disk |-> d]

----------------------------------------------------------------------------
(* Repositories *)

RepoUpdateStock(ps, id, stock) ==
    IF id \in DOMAIN ps THEN [ps EXCEPT ![id].stock = stock] ELSE ps

SaleRepoCreate(ss, sale) == Append(ss, sale)

----------------------------------------------------------------------------
(* SaleUseCase.CreateSale, behind SaleHandler.CreateSale *)

\* variants of the stock check: one unit too lenient, one unit too strict
InsufficientStock_Lenient(product, req) == product.stock + 1 < req.quantity

InsufficientStock_Strict(product, req) == product.stock <= req.quantity

InsufficientStock(product, req) == product.stock < req.quantity

\* variant: the total forgets the quantity
SaleTotal_UnitPrice(req) == req.price

SaleTotal(req) == req.price * req.quantity

\* DateSold: time.Now()
NewSale(req) == Sale(req.product_id, req.quantity, req.price, SaleTotal(req), now)

NewStock(product, req) == product.stock - req.quantity

\* c.JSON(status, body): the handler writes its response
Reply(w, op, req, kind) ==
    /\ resp' = Response(w, op, req, kind)
    /\ faulted' = (faulted \/ kind = "StorageFailure")
    /\ pc' = [pc EXCEPT ![w] = "replied"]
    /\ call' = [call EXCEPT ![w] = NoCall]

\* c.JSON(status, body) where the body is read by the properties
ReplyWith(w, op, req, kind, body) ==
    /\ resp' = [w |-> w, op |-> op, kind |-> kind, req |-> req, body |-> body]
    /\ faulted' = (faulted \/ kind = "StorageFailure")
    /\ pc' = [pc EXCEPT ![w] = "replied"]
    /\ call' = [call EXCEPT ![w] = NoCall]

\* the handler returns and its slot takes the next request
Return(w) ==
    /\ pc[w] = "replied"
    /\ pc' = [pc EXCEPT ![w] = "idle"]
    /\ resp' = IF resp.w = w THEN NoResp ELSE resp
    /\ UNCHANGED <<products, sales, call, faulted, W, rest>>

\* bind the request, read the product, check the stock
SaleBegin(w) ==
    /\ pc[w] = "idle"
    /\ Len(sales) + Cardinality({v \in W : pc[v] = "sale_create"}) < MaxSales
    /\ \E pid \in DOMAIN products \cup {MissingID}, qty \in Quantities,
          price \in Prices \cup {0}, readOK \in BOOLEAN :
         LET req == [product_id |-> pid, quantity |-> qty, price |-> price] IN
         IF ~ValidCreateSaleRequest(req)
         THEN Reply(w, "CreateSale", req, "ValidationError") /\ UNCHANGED <<products, sales, W, rest>>
         ELSE IF ~readOK
         THEN Reply(w, "CreateSale", req, "StorageFailure") /\ UNCHANGED <<products, sales, W, rest>>
         ELSE IF pid \notin DOMAIN products
         THEN Reply(w, "CreateSale", req, "NotFound") /\ UNCHANGED <<products, sales, W, rest>>
         ELSE IF InsufficientStock(products[pid], req)
         THEN Reply(w, "CreateSale", req, "InsufficientStock") /\ UNCHANGED <<products, sales, W, rest>>
         ELSE /\ pc' = [pc EXCEPT ![w] = "sale_create"]
              /\ call' = [call EXCEPT ![w] = [op |-> "CreateSale", req |-> req, product |-> products[pid]]]
              /\ resp' = NoResp
              /\ UNCHANGED faulted
              /\ UNCHANGED <<products, sales, W, rest>>

\* variant: the error of saleRepo.Create is dropped and the stock is written anyway
SaleInsert_ErrorDropped(w) ==
    /\ pc[w] = "sale_create"
    /\ \E ok \in BOOLEAN :
         /\ sales' = IF ok THEN SaleRepoCreate(sales, NewSale(call[w].req)) ELSE sales
         /\ pc' = [pc EXCEPT ![w] = "sale_stock"]
         /\ resp' = NoResp
         /\ faulted' = (faulted \/ ~ok)
         /\ UNCHANGED <<products, call, W, rest>>

\* saleRepo.Create
SaleInsert(w) ==
    /\ pc[w] = "sale_create"
    /\ \E ok \in BOOLEAN :
         IF ok
         THEN /\ sales' = SaleRepoCreate(sales, NewSale(call[w].req))
              /\ pc' = [pc EXCEPT ![w] = "sale_stock"]
              /\ resp' = NoResp
              /\ UNCHANGED faulted
              /\ UNCHANGED <<products, call, W, rest>>
         ELSE Reply(w, "CreateSale", call[w].req, "StorageFailure") /\ UNCHANGED <<products, sales, W, rest>>

\* variant: a failed stock write takes the sale back out
SaleStockWrite_Rollback(w) ==
    /\ pc[w] = "sale_stock"
    /\ \E ok \in BOOLEAN :
         IF ok
         THEN /\ products' = RepoUpdateStock(products, call[w].req.product_id,
                                             call[w].product.stock - call[w].req.quantity)
              /\ Reply(w, "CreateSale", call[w].req, "Created")
              /\ UNCHANGED <<sales, W, rest>>
         ELSE /\ sales' = SelectSeq(sales, LAMBDA sale : sale # Sale(call[w].req.product_id,
                               call[w].req.quantity, call[w].req.price,
                               call[w].req.price * call[w].req.quantity, now))
              /\ Reply(w, "CreateSale", call[w].req, "StorageFailure")
              /\ UNCHANGED <<products, W, rest>>

\* productRepo.UpdateStock with the stock computed from the product read at the start
SaleStockWrite(w) ==
    /\ pc[w] = "sale_stock"
    /\ \E ok \in BOOLEAN :
         IF ok
         THEN /\ products' = RepoUpdateStock(products, call[w].req.product_id,
                                             NewStock(call[w].product, call[w].req))
              /\ Reply(w, "CreateSale", call[w].req, "Created")
              /\ UNCHANGED <<sales, W, rest>>
         ELSE Reply(w, "CreateSale", call[w].req, "StorageFailure") /\ UNCHANGED <<products, sales, W, rest>>

----------------------------------------------------------------------------
(* InventoryUseCase.UpdateStock, behind InventoryHandler.UpdateStock *)

StockBegin(w) ==
    /\ pc[w] = "idle"
    /\ \E pid \in DOMAIN products \cup {MissingID}, n \in StockInputs, readOK \in BOOLEAN :
         LET req == [id |-> pid, stock |-> n] IN
         IF ~ValidStockUpdateRequest(req)
         THEN Reply(w, "UpdateStock", req, "ValidationError") /\ UNCHANGED <<products, sales, W, rest>>
         ELSE IF ~readOK
         THEN Reply(w, "UpdateStock", req, "StorageFailure") /\ UNCHANGED <<products, sales, W, rest>>
         ELSE IF pid \notin DOMAIN products
         THEN Reply(w, "UpdateStock", req, "NotFound") /\ UNCHANGED <<products, sales, W, rest>>
         ELSE /\ pc' = [pc EXCEPT ![w] = "stock_write"]
              /\ call' = [call EXCEPT ![w] = [op |-> "UpdateStock", req |-> req]]
              /\ resp' = NoResp
              /\ UNCHANGED faulted
              /\ UNCHANGED <<products, sales, W, rest>>

StockWrite(w) ==
    /\ pc[w] = "stock_write"
    /\ \E ok \in BOOLEAN :
         IF ok
         THEN /\ products' = RepoUpdateStock(products, call[w].req.id, call[w].req.stock)
              /\ Reply(w, "UpdateStock", call[w].req, "OK")
              /\ UNCHANGED <<sales, W, rest>>
         ELSE Reply(w, "UpdateStock", call[w].req, "StorageFailure") /\ UNCHANGED <<products, sales, W, rest>>

----------------------------------------------------------------------------
(* Product use case: building the image collection *)

HasPrimary(images) == \E i \in 1..Len(images) : images[i].is_primary

\* "Ensure at least one image is marked as primary"
EnsurePrimary(images) ==
    IF Len(images) > 0 /\ ~HasPrimary(images)
    THEN [images EXCEPT ![1].is_primary = TRUE]
    ELSE images

\* the handlers' upload loop: the first saved file is flagged primary
UploadedImages(paths) == [i \in 1..Len(paths) |-> UploadedImage(paths[i], i = 1)]

RECURSIVE SaveFiles(_, _, _)
\* for _, fileHeader := range form.File["images"]: SaveFile each upload and
\* return at the first error; what was saved before it stays on the disk
SaveFiles(d, files, paths) ==
    IF files = <<>> THEN [err |-> "nil", paths |-> paths, disk |-> d]
    ELSE LET saved == SaveFile(d, Head(files).header, Head(files).io) IN
         IF saved.err # "nil"
         THEN [err |-> saved.err, paths |-> paths, disk |-> saved.disk]
         ELSE SaveFiles(saved.disk, Tail(files), Append(paths, saved.file_path))

RECURSIVE CleanUp(_, _)
\* "Clean up uploaded files on error": DeleteFile(img.FilePath) for each uploaded image
CleanUp(d, paths) ==
    IF paths = <<>> THEN d
    ELSE CleanUp(DeleteFile(d, Head(paths), TRUE).disk, Tail(paths))

\* CreateProduct: for i, url := range req.ImageURLs (i is the index in the request)
RECURSIVE CreateURLImages(_, _, _)
CreateURLImages(images, urls, i) ==
    IF i > Len(urls) THEN images
    ELSE CreateURLImages(
           IF urls[i] # "" THEN Append(images, URLImage(urls[i], i = 1)) ELSE images,
           urls, i + 1)

\* CreateProductWithImages / UpdateProductWithImages: primary iff the collection is still empty
RECURSIVE MergeURLImages(_, _, _)
MergeURLImages(images, urls, i) ==
    IF i > Len(urls) THEN images
    ELSE MergeURLImages(
           IF urls[i] # "" THEN Append(images, URLImage(urls[i], Len(images) = 0)) ELSE images,
           urls, i + 1)

\* UpdateProduct: primary iff first request entry and no image kept so far
RECURSIVE ReplaceURLImages(_, _, _)
ReplaceURLImages(images, urls, i) ==
    IF i > Len(urls) THEN images
    ELSE ReplaceURLImages(
           IF urls[i] # "" THEN Append(images, URLImage(urls[i], i = 1 /\ Len(images) = 0)) ELSE images,
           urls, i + 1)

\* "Handle legacy single image URL for backward compatibility"
LegacyImage(images, image_url) ==
    IF image_url # "" /\ Len(images) = 0
    THEN Append(images, URLImage(image_url, TRUE))
    ELSE images

\* UpdateProduct: the scan for the image that stands for the legacy URL
RECURSIVE LegacyScan(_, _, _)
LegacyScan(images, i, image_url) ==
    IF i > Len(images) THEN [found |-> FALSE, images |-> images]
    ELSE IF images[i].is_url /\ images[i].url = image_url
    THEN [found |-> TRUE, images |-> images]
    ELSE IF images[i].is_url /\ images[i].is_primary
    THEN [found |-> TRUE, images |-> [images EXCEPT ![i].url = image_url]]
    ELSE LegacyScan(images, i + 1, image_url)

IsUploaded(img) == ~img.is_url

----------------------------------------------------------------------------
(* Product use case: the documents it writes *)

CreateProduct(req) ==
    Product(req.name, req.description, req.price, req.category, req.brand, req.image_url,
            LegacyImage(CreateURLImages(<<>>, req.image_urls, 1), req.image_url),
            req.stock, TRUE)

CreateProductWithImages(req, uploadedImages) ==
    Product(req.name, req.description, req.price, req.category, req.brand, req.image_url,
            EnsurePrimary(LegacyImage(MergeURLImages(uploadedImages, req.image_urls, 1), req.image_url)),
            req.stock, TRUE)

\* the partial-update rule shared by both update paths
KeepStock(req) == ~(req.stock >= 0)

UpdateBasicFields(product, req) ==
    [product EXCEPT
       !.name = IF req.name # "" THEN req.name ELSE @,
       !.description = IF req.description # "" THEN req.description ELSE @,
       !.price = IF req.price > 0 THEN req.price ELSE @,
       !.category = IF req.category # "" THEN req.category ELSE @,
       !.brand = IF req.brand # "" THEN req.brand ELSE @,
       !.stock = IF KeepStock(req) THEN @ ELSE req.stock,
       !.is_active = IF req.is_active # <<>> THEN req.is_active[1] ELSE @]

UpdateProduct(product, req) ==
    LET basic == UpdateBasicFields(product, req)
        scan == LegacyScan(basic.images, 1, req.image_url)
        legacy == IF req.image_url # ""
                  THEN [basic EXCEPT
                          !.image_url = req.image_url,
                          !.images = IF scan.found THEN scan.images
                                     ELSE <<URLImage(req.image_url, TRUE)>> \o basic.images]
                  ELSE basic
    IN  IF Len(req.image_urls) > 0
        THEN [legacy EXCEPT !.images =
                 ReplaceURLImages(SelectSeq(legacy.images, IsUploaded), req.image_urls, 1)]
        ELSE legacy

UpdateProductWithImages(product, req, uploadedImages) ==
    LET basic == UpdateBasicFields(product, req)
        merged == MergeURLImages(uploadedImages, req.image_urls, 1)
    IN  [basic EXCEPT
           !.image_url = IF req.image_url # "" /\ Len(merged) = 0 THEN req.image_url ELSE @,
           !.images = EnsurePrimary(LegacyImage(merged, req.image_url))]

----------------------------------------------------------------------------
(* Product repository *)

\* primitive.NewObjectID(): an id that no stored document carries
NewObjectID(ps) == CHOOSE id \in ProductIDs : id \notin DOMAIN ps

RepoCreate(ps, product) ==
    [id \in DOMAIN ps \cup {NewObjectID(ps)} |-> IF id \in DOMAIN ps THEN ps[id] ELSE product]

\* UpdateOne({_id: id}, {$set: product}): no match, no effect, no error
RepoUpdate(ps, id, product) ==
    IF id \in DOMAIN ps THEN [ps EXCEPT ![id] = product] ELSE ps

RepoDelete(ps, id) == [i \in DOMAIN ps \ {id} |-> ps[i]]

----------------------------------------------------------------------------
(* ProductHandler: create *)

\* binding tags of CreateProductRequest, applied by ShouldBindJSON
ValidCreateProductRequest(req) ==
    /\ Required(req.name, "")
    /\ Required(req.price, 0) /\ req.price > 0
    /\ Required(req.category, "")
    /\ Required(req.stock, 0) /\ req.stock >= 0

\* "Validate required fields" of createProductWithFiles
ValidCreateProductForm(req) ==
    /\ req.name # ""
    /\ ~(req.price <= 0)
    /\ req.category # ""

\* every upload of the request passes SaveFile
AllSaved(files) == \A i \in 1..Len(files) : ValidateFile(files[i].header) = "nil" /\ files[i].io = "nil"

\* uuid.New() has a name left for every upload of the request
CanSave(files) == Cardinality(FreeNames(disk)) >= Len(files)

\* the files the handler of the running request has saved
Uploaded(c) == IF "uploaded" \in DOMAIN c THEN c.uploaded ELSE <<>>

\* the catalog specifications follow the documents of CatalogIDs
CanCreate == \E id \in CatalogIDs : id \notin DOMAIN products

CreateJSONBegin(w, Reqs) ==
    /\ pc[w] = "idle"
    /\ CanCreate
    /\ \E req \in Reqs :
         IF ~ValidCreateProductRequest(req)
         THEN Reply(w, "CreateProduct", req, "ValidationError") /\ UNCHANGED <<products, sales, W, rest>>
         ELSE /\ pc' = [pc EXCEPT ![w] = "create_write"]
              /\ call' = [call EXCEPT ![w] = [op |-> "CreateProduct", req |-> req,
                                              product |-> CreateProduct(req)]]
              /\ resp' = NoResp
              /\ UNCHANGED <<products, sales, faulted, W, rest>>

CreateFilesBegin(w, Reqs, Files) ==
    /\ pc[w] = "idle"
    /\ CanCreate
    /\ \E req \in Reqs, files \in Files :
         LET saved == SaveFiles(disk, files, <<>>) IN
         /\ CanSave(files)
         /\ IF ~ValidCreateProductForm(req)
            THEN Reply(w, "CreateProductFiles", req, "ValidationError") /\ UNCHANGED <<products, sales, W, rest>>
            ELSE IF ~AllSaved(files)
            THEN /\ Reply(w, "CreateProductFiles", req, "UploadRejected")
                 /\ disk' = saved.disk
                 /\ UNCHANGED <<products, sales, W, accounts>>
            ELSE /\ pc' = [pc EXCEPT ![w] = "create_write"]
                 /\ call' = [call EXCEPT ![w] =
                               [op |-> "CreateProductFiles", req |-> req, uploaded |-> saved.paths,
                                product |-> CreateProductWithImages(req, UploadedImages(saved.paths))]]
                 /\ resp' = NoResp
                 /\ disk' = saved.disk
                 /\ UNCHANGED <<products, sales, faulted, W, accounts>>

\* productRepo.Create
CreateWrite(w) ==
    /\ pc[w] = "create_write"
    /\ \E ok \in BOOLEAN :
         IF ok
         THEN /\ products' = RepoCreate(products, call[w].product)
              /\ Reply(w, call[w].op, call[w].req, "Created")
              /\ UNCHANGED <<sales, W, rest>>
         ELSE /\ Reply(w, call[w].op, call[w].req, "StorageFailure")
              /\ disk' = CleanUp(disk, Uploaded(call[w]))
              /\ UNCHANGED <<products, sales, W, accounts>>

----------------------------------------------------------------------------
(* ProductHandler: update and delete *)

\* the request as the handler sees it: c.Param("id") next to the bound body
WithID(req, id) == [f \in DOMAIN req \cup {"id"} |-> IF f = "id" THEN id ELSE req[f]]

UpdateJSONBegin(w, Reqs) ==
    /\ pc[w] = "idle"
    /\ \E pid \in DOMAIN products \cup {MissingID}, req \in Reqs, readOK \in BOOLEAN :
         IF ~readOK
         THEN Reply(w, "UpdateProduct", WithID(req, pid), "StorageFailure") /\ UNCHANGED <<products, sales, W, rest>>
         ELSE IF pid \notin DOMAIN products
         THEN Reply(w, "UpdateProduct", WithID(req, pid), "NotFound") /\ UNCHANGED <<products, sales, W, rest>>
         ELSE /\ pc' = [pc EXCEPT ![w] = "update_write"]
              /\ call' = [call EXCEPT ![w] = [op |-> "UpdateProduct", id |-> pid, req |-> req,
                                              product |-> UpdateProduct(products[pid], req)]]
              /\ resp' = NoResp
              /\ UNCHANGED <<products, sales, faulted, W, rest>>

UpdateFilesBegin(w, Reqs, Files) ==
    /\ pc[w] = "idle"
    /\ \E pid \in DOMAIN products \cup {MissingID}, req \in Reqs, files \in Files,
          readOK \in BOOLEAN :
         LET saved == SaveFiles(disk, files, <<>>) IN
         /\ CanSave(files)
         /\ IF ~AllSaved(files)
            THEN /\ Reply(w, "UpdateProductFiles", WithID(req, pid), "UploadRejected")
                 /\ disk' = saved.disk
                 /\ UNCHANGED <<products, sales, W, accounts>>
            ELSE IF ~readOK
            THEN /\ Reply(w, "UpdateProductFiles", WithID(req, pid), "StorageFailure")
                 /\ disk' = CleanUp(saved.disk, saved.paths)
                 /\ UNCHANGED <<products, sales, W, accounts>>
            ELSE IF pid \notin DOMAIN products
            THEN /\ Reply(w, "UpdateProductFiles", WithID(req, pid), "NotFound")
                 /\ disk' = CleanUp(saved.disk, saved.paths)
                 /\ UNCHANGED <<products, sales, W, accounts>>
            ELSE /\ pc' = [pc EXCEPT ![w] = "update_write"]
                 /\ call' = [call EXCEPT ![w] =
                               [op |-> "UpdateProductFiles", id |-> pid, req |-> req,
                                uploaded |-> saved.paths,
                                product |-> UpdateProductWithImages(products[pid], req,
                                                                    UploadedImages(saved.paths))]]
                 /\ resp' = NoResp
                 /\ disk' = saved.disk
                 /\ UNCHANGED <<products, sales, faulted, W, accounts>>

\* productRepo.Update
UpdateWrite(w) ==
    /\ pc[w] = "update_write"
    /\ \E ok \in BOOLEAN :
         IF ok
         THEN /\ products' = RepoUpdate(products, call[w].id, call[w].product)
              /\ Reply(w, call[w].op, WithID(call[w].req, call[w].id), "OK")
              /\ UNCHANGED <<sales, W, rest>>
         ELSE /\ Reply(w, call[w].op, WithID(call[w].req, call[w].id), "StorageFailure")
              /\ disk' = CleanUp(disk, Uploaded(call[w]))
              /\ UNCHANGED <<products, sales, W, accounts>>

\* variant: the existence check is skipped and the delete is issued blindly
DeleteBegin_NoLookup(w) ==
    /\ pc[w] = "idle"
    /\ \E pid \in DOMAIN products \cup {MissingID}, readOK \in BOOLEAN :
         LET req == [id |-> pid] IN
         IF ~readOK
         THEN Reply(w, "DeleteProduct", req, "StorageFailure") /\ UNCHANGED <<products, sales, W, rest>>
         ELSE /\ pc' = [pc EXCEPT ![w] = "delete_write"]
              /\ call' = [call EXCEPT ![w] = [op |-> "DeleteProduct", req |-> req]]
              /\ resp' = NoResp
              /\ UNCHANGED <<products, sales, faulted, W, rest>>

DeleteBegin(w) ==
    /\ pc[w] = "idle"
    /\ \E pid \in DOMAIN products \cup {MissingID}, readOK \in BOOLEAN :
         LET req == [id |-> pid] IN
         IF ~readOK
         THEN Reply(w, "DeleteProduct", req, "StorageFailure") /\ UNCHANGED <<products, sales, W, rest>>
         ELSE IF pid \notin DOMAIN products
         THEN Reply(w, "DeleteProduct", req, "NotFound") /\ UNCHANGED <<products, sales, W, rest>>
         ELSE /\ pc' = [pc EXCEPT ![w] = "delete_write"]
              /\ call' = [call EXCEPT ![w] = [op |-> "DeleteProduct", req |-> req]]
              /\ resp' = NoResp
              /\ UNCHANGED <<products, sales, faulted, W, rest>>

\* productRepo.Delete
DeleteWrite(w) ==
    /\ pc[w] = "delete_write"
    /\ \E ok \in BOOLEAN :
         IF ok
         THEN /\ products' = RepoDelete(products, call[w].req.id)
              /\ Reply(w, "DeleteProduct", call[w].req, "OK")
              /\ UNCHANGED <<sales, W, rest>>
         ELSE Reply(w, "DeleteProduct", call[w].req, "StorageFailure") /\ UNCHANGED <<products, sales, W, rest>>

----------------------------------------------------------------------------
(* The file store called on its own *)

FileSizes == {0, MaxFileSize - 1, MaxFileSize, MaxFileSize + 1, 6 * 1024 * 1024}

ContentTypes == AllowedImageTypes \cup {"text/plain", "image/svg+xml", ""}

FileNames ==
    {<<"a", "jpg">>, <<"a", "JPG">>, <<"a", "jpeg">>, <<"a", "Png">>, <<"a", "gif">>,
     <<"a", "webp">>, <<"a", "txt">>, <<"a", "TXT">>, <<"a", "txt", "jpg">>,
     <<"a", "jpg", "txt">>, <<"a">>}

\* multipart.FileHeader: Size, Header.Get("Content-Type"), Filename
FileHeaders == [size : FileSizes, content_type : ContentTypes, filename : FileNames]

\* h.uploadConfig.SaveFile(fileHeader)
Upload(w) ==
    /\ pc[w] = "idle"
    /\ FreeNames(disk) # {}
    /\ \E header \in FileHeaders, io \in IOOutcomes :
         LET saved == SaveFile(disk, header, io) IN
         /\ disk' = saved.disk
         /\ IF saved.err = "nil"
            THEN ReplyWith(w, "SaveFile", header, "OK", [file_path |-> saved.file_path])
            ELSE Reply(w, "SaveFile", header, saved.err)
    /\ UNCHANGED <<products, sales, W, accounts>>

\* paths handed to DeleteFile: none, an upload, a path that climbs out of the
\* upload directory, a sibling directory, a path elsewhere
DeletePaths ==
    {<<>>}
       \cup {UploadDir \o <<"/", FileNamePool[i]>> : i \in DOMAIN FileNamePool}
       \cup {UploadDir \o <<"/", "..", "/", "..", "/", "etc", "/", "passwd">>,
             UploadDir \o <<"-old", "/", "f1">>,
             <<"etc", "/", "passwd">>}

\* h.uploadConfig.DeleteFile(filePath)
Remove(w) ==
    /\ pc[w] = "idle"
    /\ \E filePath \in DeletePaths, removeOK \in BOOLEAN :
         LET deleted == DeleteFile(disk, filePath, removeOK) IN
         /\ disk' = deleted.disk
         /\ Reply(w, "DeleteFile", [file_path |-> filePath],
                  IF deleted.err = "nil" THEN "OK" ELSE deleted.err)
    /\ UNCHANGED <<products, sales, W, accounts>>

----------------------------------------------------------------------------
(* Request universes of the catalog specifications *)

\* create requests that vary the validated fields and carry no image
FieldCreateReqs ==
    [name : {"", "a"}, description : {"", "a"}, price : {0, 1}, category : {"", "a"},
     brand : {"", "a"}, image_url : {""}, image_urls : {<<>>}, stock : {-1, 0, 1}]

\* partial updates over the basic fields: "" / 0 / <<>> stand for an absent field
AllFieldUpdateReqs ==
    [name : {"", "b"}, description : {"", "b"}, price : {0, 2}, category : {"", "b"},
     brand : {"", "b"}, image_url : {""}, image_urls : {<<>>}, stock : {-1, 0, 2},
     is_active : {<<>>, <<TRUE>>, <<FALSE>>}]

URLInputs == URLs \cup {""}

URLLists == UNION {[1..n -> URLInputs] : n \in 0..MaxURLs}

\* uploads of one request: files that pass SaveFile, possibly ended by one that does not
GoodUpload ==
    [header |-> [size |-> 1, content_type |-> "image/png", filename |-> <<"a", "png">>], io |-> "nil"]

\* an upload ValidateFile refuses, and one whose copy fails
LargeUpload == [GoodUpload EXCEPT !.header.size = MaxFileSize + 1]
BrokenUpload == [GoodUpload EXCEPT !.io = "copy"]

FileLists == UNION {[1..n -> {GoodUpload, LargeUpload, BrokenUpload}] : n \in 0..MaxFiles}

Uploads == {files \in FileLists : \A i \in 1..Len(files) : (i < Len(files)) => files[i] = GoodUpload}

NoUploads == {<<>>}

ImageCreateReqs ==
    [name : {"a"}, description : {""}, price : {1}, category : {"a"},
     brand : {""}, image_url : URLInputs, image_urls : URLLists, stock : {1}]

ImageUpdateReqs ==
    [name : {""}, description : {""}, price : {0}, category : {""},
     brand : {""}, image_url : URLInputs, image_urls : URLLists, stock : {-1},
     is_active : {<<>>}]

----------------------------------------------------------------------------
(* Users: AuthUseCase.Register behind AuthHandler.Register *)

UserIDs == {"u1", "u2", "u3"}
Emails == {"a@x", "b@x"}
EmailInputs == Emails \cup {"nobody", ""}
Passwords == {"secret", "hunter2"}
PasswordInputs == Passwords \cup {"short", ""}
Roles == {"user", "admin"}
RoleInputs == Roles \cup {"", "root"}

User(email, password, name, role, is_active) ==
    [email |-> email, password |-> password, name |-> name, role |-> role,
     is_active |-> is_active]

\* len(password), for the min=6 tag
PasswordLen(password) ==
    CASE password = "secret" -> 6
      [] password = "hunter2" -> 7
      [] password = "short" -> 5
      [] OTHER -> 0

\* the email tag: an address of the form local@domain
IsEmail(email) == email \in Emails

ValidCreateUserRequest(req) ==
    /\ Required(req.email, "") /\ IsEmail(req.email)
    /\ Required(req.password, "") /\ PasswordLen(req.password) >= 6
    /\ Required(req.name, "")

\* bcrypt.GenerateFromPassword: the stored value is not the password
GenerateFromPassword(password) == <<"bcrypt", password>>

\* bcrypt.CompareHashAndPassword
CompareHashAndPassword(hash, password) == hash = GenerateFromPassword(password)

\* userRepo.GetByEmail: the ids whose document carries the email
GetByEmail(us, email) == {id \in DOMAIN us : us[id].email = email}

NewUserID(us) == CHOOSE id \in UserIDs : id \notin DOMAIN us

UserRepoCreate(us, user) ==
    [id \in DOMAIN us \cup {NewUserID(us)} |-> IF id \in DOMAIN us THEN us[id] ELSE user]

\* "Set default role if not provided"
DefaultRole(role) == IF role = "" THEN "user" ELSE role

NewUser(req) ==
    User(req.email, GenerateFromPassword(req.password), req.name, DefaultRole(req.role), TRUE)

CanRegister == \E id \in UserIDs : id \notin DOMAIN users

\* variant: the lookup by email is skipped
RegisterBegin_NoLookup(w) ==
    /\ pc[w] = "idle"
    /\ CanRegister
    /\ \E email \in EmailInputs, password \in PasswordInputs, name \in {"", "n"},
          role \in RoleInputs, readOK \in BOOLEAN :
         LET req == [email |-> email, password |-> password, name |-> name, role |-> role] IN
         IF ~ValidCreateUserRequest(req)
         THEN Reply(w, "Register", req, "ValidationError") /\ UNCHANGED <<products, sales, W, rest>>
         ELSE IF ~readOK
         THEN Reply(w, "Register", req, "StorageFailure") /\ UNCHANGED <<products, sales, W, rest>>
         ELSE /\ pc' = [pc EXCEPT ![w] = "register_write"]
              /\ call' = [call EXCEPT ![w] = [op |-> "Register", req |-> req]]
              /\ resp' = NoResp
              /\ UNCHANGED <<products, sales, faulted, W, rest>>

\* bind the request and look the email up
RegisterBegin(w) ==
    /\ pc[w] = "idle"
    /\ CanRegister
    /\ \E email \in EmailInputs, password \in PasswordInputs, name \in {"", "n"},
          role \in RoleInputs, readOK \in BOOLEAN :
         LET req == [email |-> email, password |-> password, name |-> name, role |-> role] IN
         IF ~ValidCreateUserRequest(req)
         THEN Reply(w, "Register", req, "ValidationError") /\ UNCHANGED <<products, sales, W, rest>>
         ELSE IF ~readOK
         THEN Reply(w, "Register", req, "StorageFailure") /\ UNCHANGED <<products, sales, W, rest>>
         ELSE IF GetByEmail(users, email) # {}
         THEN Reply(w, "Register", req, "Conflict") /\ UNCHANGED <<products, sales, W, rest>>
         ELSE /\ pc' = [pc EXCEPT ![w] = "register_write"]
              /\ call' = [call EXCEPT ![w] = [op |-> "Register", req |-> req]]
              /\ resp' = NoResp
              /\ UNCHANGED <<products, sales, faulted, W, rest>>

\* userRepo.Create (InsertOne)
RegisterWrite(w) ==
    /\ pc[w] = "register_write"
    /\ \E ok \in BOOLEAN :
         IF ok
         THEN /\ users' = UserRepoCreate(users, NewUser(call[w].req))
              /\ Reply(w, "Register", call[w].req, "Created")
              /\ UNCHANGED <<products, sales, W, categories, now, auth, tokens, disk>>
         ELSE Reply(w, "Register", call[w].req, "StorageFailure")
              /\ UNCHANGED <<products, sales, W, rest>>

----------------------------------------------------------------------------
(* Categories: CategoryUseCase behind CategoryHandler *)

CategoryIDs == {"c1", "c2", "c3"}
CategoryNames == {"seeds", "tools"}

Category(name) == [name |-> name]

\* variant: the filter matches no document
CategoryGetByName_NoMatch(cs, name) == {}

\* categoryRepo.GetByName: the ids whose document carries the name
CategoryGetByName(cs, name) == {id \in DOMAIN cs : cs[id].name = name}

NewCategoryID(cs) == CHOOSE id \in CategoryIDs : id \notin DOMAIN cs

\* InsertOne of categoryRepo.Create
CategoryInsert(cs, category) ==
    [id \in DOMAIN cs \cup {NewCategoryID(cs)} |-> IF id \in DOMAIN cs THEN cs[id] ELSE category]

CategoryRepoDelete(cs, id) == [i \in DOMAIN cs \ {id} |-> cs[i]]

CanCreateCategory == \E id \in CategoryIDs : id \notin DOMAIN categories

\* bind the request; the use case looks the name up
CategoryCreateBegin(w) ==
    /\ pc[w] = "idle"
    /\ CanCreateCategory
    /\ \E name \in CategoryNames \cup {""}, readOK \in BOOLEAN :
         LET req == [name |-> name] IN
         IF ~Required(req.name, "")
         THEN Reply(w, "CreateCategory", req, "ValidationError") /\ UNCHANGED <<products, sales, W, rest>>
         ELSE IF ~readOK
         THEN Reply(w, "CreateCategory", req, "StorageFailure") /\ UNCHANGED <<products, sales, W, rest>>
         ELSE IF CategoryGetByName(categories, name) # {}
         THEN Reply(w, "CreateCategory", req, "Conflict") /\ UNCHANGED <<products, sales, W, rest>>
         ELSE /\ pc' = [pc EXCEPT ![w] = "category_check"]
              /\ call' = [call EXCEPT ![w] = [op |-> "CreateCategory", req |-> req]]
              /\ resp' = NoResp
              /\ UNCHANGED <<products, sales, faulted, W, rest>>

\* categoryRepo.Create looks the name up once more
CategoryCreateCheck(w) ==
    /\ pc[w] = "category_check"
    /\ \E readOK \in BOOLEAN :
         IF ~readOK
         THEN Reply(w, "CreateCategory", call[w].req, "StorageFailure")
              /\ UNCHANGED <<products, sales, W, rest>>
         ELSE IF CategoryGetByName(categories, call[w].req.name) # {}
         THEN Reply(w, "CreateCategory", call[w].req, "Conflict")
              /\ UNCHANGED <<products, sales, W, rest>>
         ELSE /\ pc' = [pc EXCEPT ![w] = "category_insert"]
              /\ resp' = NoResp
              /\ UNCHANGED <<products, sales, call, faulted, W, rest>>

\* ... and inserts the document
CategoryCreateInsert(w) ==
    /\ pc[w] = "category_insert"
    /\ \E ok \in BOOLEAN :
         IF ok
         THEN /\ categories' = CategoryInsert(categories, Category(call[w].req.name))
              /\ ReplyWith(w, "CreateCategory", call[w].req, "Created",
                           [id |-> NewCategoryID(categories), name |-> call[w].req.name])
              /\ UNCHANGED <<products, sales, W, users, now, auth, tokens, disk>>
         ELSE Reply(w, "CreateCategory", call[w].req, "StorageFailure")
              /\ UNCHANGED <<products, sales, W, rest>>

\* the id of the path is looked up
CategoryDeleteBegin(w) ==
    /\ pc[w] = "idle"
    /\ \E id \in DOMAIN categories \cup {MissingID}, readOK \in BOOLEAN :
         LET req == [id |-> id] IN
         IF ~readOK
         THEN Reply(w, "DeleteCategory", req, "StorageFailure") /\ UNCHANGED <<products, sales, W, rest>>
         ELSE IF id \notin DOMAIN categories
         THEN Reply(w, "DeleteCategory", req, "NotFound") /\ UNCHANGED <<products, sales, W, rest>>
         ELSE /\ pc' = [pc EXCEPT ![w] = "category_delete"]
              /\ call' = [call EXCEPT ![w] = [op |-> "DeleteCategory", req |-> req]]
              /\ resp' = NoResp
              /\ UNCHANGED <<products, sales, faulted, W, rest>>

\* categoryRepo.Delete
CategoryDeleteWrite(w) ==
    /\ pc[w] = "category_delete"
    /\ \E ok \in BOOLEAN :
         IF ok
         THEN /\ categories' = CategoryRepoDelete(categories, call[w].req.id)
              /\ Reply(w, "DeleteCategory", call[w].req, "OK")
              /\ UNCHANGED <<products, sales, W, users, now, auth, tokens, disk>>
         ELSE Reply(w, "DeleteCategory", call[w].req, "StorageFailure")
              /\ UNCHANGED <<products, sales, W, rest>>

----------------------------------------------------------------------------
(* Reports: the aggregation pipelines and how their documents are decoded *)

\* the length of the calendar month the clock runs through, in days
DaysPerMonth == 30

\* the zero time.Time: before every date
ZeroTime == -1

IsZero(t) == t = ZeroTime

\* time.Parse("2006-01-02", ...) of a query date: midnight of day d
DayStart(d) == d * Hours24

\* "Set to end of day": plus 23h 59m 59s
EndOfDay(t) == t + (Hours24 - 1)

\* time.Date(now.Year(), now.Month(), 1, 0, 0, 0, 0, ...)
MonthStart(t) == (t \div (DaysPerMonth * Hours24)) * (DaysPerMonth * Hours24)

\* fromDate.AddDate(0, 1, -1).Add(23h 59m 59s)
MonthEnd(t) == EndOfDay(MonthStart(t) + (DaysPerMonth - 1) * Hours24)

\* {"$match": {"date_sold": {"$gte": fromDate, "$lte": toDate}}}
MatchDateSold(ss, fromDate, toDate) ==
    SelectSeq(ss, LAMBDA sale : sale.date_sold >= fromDate /\ sale.date_sold <= toDate)

RECURSIVE SumOver(_, _)
\* {"$sum": "$field"} over the documents of a group
SumOver(docs, field) ==
    IF docs = <<>> THEN 0 ELSE Head(docs)[field] + SumOver(Tail(docs), field)

\* cursor.Decode into a struct: each field takes the value under its bson key
\* (the tag, or without a tag the lower-cased field name) or stays zero
Decode(doc, fields) ==
    [f \in DOMAIN fields |->
       IF fields[f].key \in DOMAIN doc THEN doc[fields[f].key] ELSE fields[f].zero]

\* the anonymous result struct of saleRepository.GetSalesSummary (bson tags)
SalesSummaryFields ==
    [total_sales |-> [key |-> "total_sales", zero |-> 0],
     total_revenue |-> [key |-> "total_revenue", zero |-> 0],
     total_items |-> [key |-> "total_items", zero |-> 0],
     count |-> [key |-> "count", zero |-> 0]]

\* domain.CategoryStock: json tags only
CategoryStockFields ==
    [category |-> [key |-> "category", zero |-> ""],
     total_stock |-> [key |-> "totalstock", zero |-> 0],
     total_value |-> [key |-> "totalvalue", zero |-> 0],
     product_count |-> [key |-> "productcount", zero |-> 0]]

\* domain.ProductSales: json tags only
ProductSalesFields ==
    [product_id |-> [key |-> "productid", zero |-> ""],
     product_name |-> [key |-> "productname", zero |-> ""],
     total_sold |-> [key |-> "totalsold", zero |-> 0],
     total_revenue |-> [key |-> "totalrevenue", zero |-> 0]]

\* saleRepository.GetSalesSummary: no group document when nothing matches
RepoSalesSummary(ss, fromDate, toDate) ==
    LET matched == MatchDateSold(ss, fromDate, toDate)
        group == [_id |-> "null",
                  total_sales |-> SumOver(matched, "total"),
                  total_revenue |-> SumOver(matched, "total"),
                  total_items |-> SumOver(matched, "quantity"),
                  count |-> Len(matched)]
        result == IF matched = <<>> THEN Decode([_id |-> "null"], SalesSummaryFields)
                  ELSE Decode(group, SalesSummaryFields)
    IN  [total_sales |-> result.total_sales, total_revenue |-> result.total_revenue,
         total_items |-> result.total_items, period |-> <<fromDate, toDate>>]

\* "If no dates provided, use current month"
DefaultsToMonth(fromDate, toDate) == IsZero(fromDate) \/ IsZero(toDate)

\* SaleUseCase.GetSalesSummary
GetSalesSummary(ss, fromDate, toDate, t) ==
    IF DefaultsToMonth(fromDate, toDate)
    THEN RepoSalesSummary(ss, MonthStart(t), MonthEnd(t))
    ELSE RepoSalesSummary(ss, fromDate, toDate)

\* every order in which a cursor can deliver the members of S
Orderings(S) ==
    {order \in [1..Cardinality(S) -> S] : \A i, j \in DOMAIN order : i # j => order[i] # order[j]}

RECURSIVE SumSet(_, _)
\* {"$sum": ...} over the members of a group, value[x] being the summand of x
SumSet(S, value) ==
    IF S = {} THEN 0
    ELSE LET x == CHOOSE y \in S : TRUE IN value[x] + SumSet(S \ {x}, value)

\* {"$match": {"is_active": true}}
ActiveProducts(ps) == {id \in DOMAIN ps : ps[id].is_active}

\* the $group stage of productRepository.GetStockSummary, for one category
CategoryGroup(ps, category) ==
    LET members == {id \in ActiveProducts(ps) : ps[id].category = category} IN
    [_id |-> category,
     total_stock |-> SumSet(members, [id \in members |-> ps[id].stock]),
     total_value |-> SumSet(members, [id \in members |-> ps[id].stock * ps[id].price]),
     product_count |-> Cardinality(members)]

\* CountDocuments({"stock": {"$lt": 10}, "is_active": true})
LowStockCount(ps) == Cardinality({id \in ActiveProducts(ps) : ps[id].stock < 10})

\* productRepository.GetStockSummary, the groups arriving in the given order
RepoStockSummary(ps, order) ==
    LET entries == [i \in DOMAIN order |-> Decode(CategoryGroup(ps, order[i]), CategoryStockFields)] IN
    [total_products |-> SumOver(entries, "product_count"),
     total_stock_value |-> SumOver(entries, "total_value"),
     low_stock_products |-> LowStockCount(ps),
     categories |-> entries]

\* GET /inventories/summary
GetStockSummary(w) ==
    /\ pc[w] = "idle"
    /\ \E readOK \in BOOLEAN :
         IF ~readOK
         THEN Reply(w, "GetStockSummary", [none |-> TRUE], "StorageFailure")
         ELSE \E order \in Orderings({products[id].category : id \in ActiveProducts(products)}) :
                ReplyWith(w, "GetStockSummary", [none |-> TRUE], "OK",
                          RepoStockSummary(products, order))
    /\ UNCHANGED <<products, sales, W, rest>>

\* the stages of saleRepository.GetSalesByProduct up to $project, for one product id
ProductGroup(ss, ps, product_id) ==
    LET mine == SelectSeq(ss, LAMBDA sale : sale.product_id = product_id) IN
    [_id |-> product_id,
     product_id |-> product_id,
     product_name |-> ps[product_id].name,
     total_sold |-> SumOver(mine, "quantity"),
     total_revenue |-> SumOver(mine, "total")]

\* {"$lookup": ...} then {"$unwind": "$product"}: a group without a stored product is dropped
Unwound(ss, ps) == {ss[i].product_id : i \in DOMAIN ss} \cap DOMAIN ps

\* {"$sort": {"total_revenue": -1}}
SortedByRevenue(ss, ps, order) ==
    \A i, j \in DOMAIN order :
       i < j => ProductGroup(ss, ps, order[i]).total_revenue >= ProductGroup(ss, ps, order[j]).total_revenue

\* saleRepository.GetSalesByProduct
RepoSalesByProduct(ss, ps, fromDate, toDate, order) ==
    LET matched == MatchDateSold(ss, fromDate, toDate) IN
    [i \in DOMAIN order |-> Decode(ProductGroup(matched, ps, order[i]), ProductSalesFields)]

\* the date range SaleUseCase.GetSalesByProduct hands to the repository
ProductSalesRange(fromDate, toDate, t) ==
    IF DefaultsToMonth(fromDate, toDate) THEN <<MonthStart(t), MonthEnd(t)>> ELSE <<fromDate, toDate>>

\* a query date: absent, not a date, or the day with that number
NoDay == -1
BadDay == -2
ReportDays == {0, 1, DaysPerMonth}
QueryDays == {NoDay, BadDay} \cup ReportDays

\* the handlers' parsing of ?from= and ?to=
ParseFrom(d) == IF d = NoDay THEN ZeroTime ELSE DayStart(d)
ParseTo(d) == IF d = NoDay THEN ZeroTime ELSE EndOfDay(DayStart(d))

DateQueries == [from : QueryDays, to : QueryDays]

\* GET /sales/summary
SalesSummaryRoute(w, queries) ==
    /\ pc[w] = "idle"
    /\ \E req \in queries, readOK \in BOOLEAN :
         IF req.from = BadDay \/ req.to = BadDay
         THEN Reply(w, "GetSalesSummary", req, "ValidationError")
         ELSE IF ~readOK
         THEN Reply(w, "GetSalesSummary", req, "StorageFailure")
         ELSE ReplyWith(w, "GetSalesSummary", req, "OK",
                        GetSalesSummary(sales, ParseFrom(req.from), ParseTo(req.to), now))
    /\ UNCHANGED <<products, sales, W, rest>>

\* GET /sales/by-product
SalesByProductRoute(w, queries) ==
    /\ pc[w] = "idle"
    /\ \E req \in queries, readOK \in BOOLEAN :
         IF req.from = BadDay \/ req.to = BadDay
         THEN Reply(w, "GetSalesByProduct", req, "ValidationError")
         ELSE IF ~readOK
         THEN Reply(w, "GetSalesByProduct", req, "StorageFailure")
         ELSE LET range == ProductSalesRange(ParseFrom(req.from), ParseTo(req.to), now)
                  matched == MatchDateSold(sales, range[1], range[2])
              IN  \E order \in Orderings(Unwound(matched, products)) :
                     /\ SortedByRevenue(matched, products, order)
                     /\ ReplyWith(w, "GetSalesByProduct", req, "OK",
                                  RepoSalesByProduct(sales, products, range[1], range[2], order))
    /\ UNCHANGED <<products, sales, W, rest>>

\* strconv.FormatFloat(x, 'f', 2, 64) and "%.2f" of a whole amount
FormatFloat2(x) == <<x, ".", "00">>

\* DateSold.Format("2006-01-02 15:04:05"): the day and the time of day
FormatDateSold(t) == <<t \div Hours24, " ", t % Hours24>>

\* the positions in ss of the sales Find returns for the filter on date_sold
DateRangeMatches(ss, fromDate, toDate) ==
    {i \in DOMAIN ss : ss[i].date_sold >= fromDate /\ ss[i].date_sold <= toDate}

\* opts.SetSort(bson.D{{"date_sold", -1}})
SortedByDateDesc(ss, order) ==
    \A i, j \in DOMAIN order : i < j => ss[order[i]].date_sold >= ss[order[j]].date_sold

\* GET /inventories/low-stock: the active products with stock below the
\* threshold, which is 10 unless ?threshold= is a positive number, lowest stock first
LowStockRoute(w, thresholds) ==
    /\ pc[w] = "idle"
    /\ \E query \in thresholds, readOK \in BOOLEAN :
         LET req == [threshold |-> query]
             threshold == IF query > 0 THEN query ELSE 10
             matches == {id \in ActiveProducts(products) : products[id].stock < threshold}
         IN  IF ~readOK
             THEN Reply(w, "GetLowStockProducts", req, "StorageFailure")
             ELSE \E order \in Orderings(matches) :
                    /\ \A i, j \in DOMAIN order : i < j => products[order[i]].stock <= products[order[j]].stock
                    /\ ReplyWith(w, "GetLowStockProducts", req, "OK",
                                 [i \in DOMAIN order |->
                                    [id |-> order[i], name |-> products[order[i]].name,
                                     stock |-> products[order[i]].stock,
                                     category |-> products[order[i]].category,
                                     price |-> products[order[i]].price]])
    /\ UNCHANGED <<products, sales, W, rest>>

\* the mongoFilter of saleRepository.List: the positions in ss of the sales it selects
ListMatches(ss, product_id, fromDate, toDate) ==
    {i \in DOMAIN ss :
        /\ product_id # "" => ss[i].product_id = product_id
        /\ ~IsZero(fromDate) => ss[i].date_sold >= fromDate
        /\ ~IsZero(toDate) => ss[i].date_sold <= toDate}

\* SetSkip((page - 1) * limit) and SetLimit(limit) on the sorted matches
PageSlice(order, page, limit) ==
    SubSeq(order, (page - 1) * limit + 1,
           IF page * limit < Len(order) THEN page * limit ELSE Len(order))

\* GET /sales: SaleHandler.GetSales over saleRepository.List; filter.Page = 1 and
\* filter.Limit = 10 are each replaced by a positive query value
GetSalesRoute(w, filters) ==
    /\ pc[w] = "idle"
    /\ \E req \in filters, readOK \in BOOLEAN :
         IF req.from = BadDay \/ req.to = BadDay \/ req.product_id = "bad"
         THEN Reply(w, "GetSales", req, "ValidationError")
         ELSE IF ~readOK
         THEN Reply(w, "GetSales", req, "StorageFailure")
         ELSE \E order \in Orderings(ListMatches(sales, req.product_id, ParseFrom(req.from), ParseTo(req.to))) :
                /\ SortedByDateDesc(sales, order)
                /\ LET page == PageSlice(order, IF req.page > 0 THEN req.page ELSE 1,
                                         IF req.limit > 0 THEN req.limit ELSE 10) IN
                   ReplyWith(w, "GetSales", req, "OK", [i \in DOMAIN page |-> sales[page[i]]])
    /\ UNCHANGED <<products, sales, W, rest>>

\* the header line SaleHandler.ExportSales writes
ExportHeader == <<"ID", "Product ID", "Quantity", "Price", "Total", "Date Sold">>

\* one line of SaleHandler.ExportSales; a sale's id is its position in the collection
ExportRow(ss, i) ==
    <<i, ss[i].product_id, ss[i].quantity, FormatFloat2(ss[i].price),
      FormatFloat2(ss[i].total), FormatDateSold(ss[i].date_sold)>>

\* the header line SalesUseCase.ExportSales writes
SalesExportHeader ==
    <<"ID", "Product ID", "Product Name", "Quantity", "Price", "Total", "Date Sold">>

\* one line of SalesUseCase.ExportSales: productName := "Unknown", replaced by
\* product.Name when GetByID returned the product
SalesExportRow(ss, ps, i, readOK) ==
    <<i, ss[i].product_id,
      IF readOK /\ ss[i].product_id \in DOMAIN ps THEN ps[ss[i].product_id].name ELSE "Unknown",
      ss[i].quantity,
      FormatFloat2(ss[i].price), FormatFloat2(ss[i].total), FormatDateSold(ss[i].date_sold)>>

Formats == {"csv", "xlsx"}

ExportQueries == [from : QueryDays, to : QueryDays, format : Formats]

\* GET /sales/export: SaleHandler.ExportSales, which reads no format parameter
ExportSalesRoute(w, queries) ==
    /\ pc[w] = "idle"
    /\ \E req \in queries, readOK \in BOOLEAN :
         IF req.from = BadDay \/ req.to = BadDay
         THEN Reply(w, "ExportSales", req, "ValidationError")
         ELSE IF ~readOK
         THEN Reply(w, "ExportSales", req, "StorageFailure")
         ELSE \E order \in Orderings(DateRangeMatches(sales, ParseFrom(req.from), ParseTo(req.to))) :
                /\ SortedByDateDesc(sales, order)
                /\ ReplyWith(w, "ExportSales", req, "OK",
                             [csv |-> <<ExportHeader>> \o [i \in DOMAIN order |-> ExportRow(sales, order[i])]])
    /\ UNCHANGED <<products, sales, W, rest>>

\* SalesUseCase.ExportSales, called with a range and a format
SalesUseCaseExport(w) ==
    /\ pc[w] = "idle"
    /\ \E req \in [from : ReportDays, to : ReportDays, format : Formats], readOK, lookupOK \in BOOLEAN :
         IF req.format # "csv"
         THEN Reply(w, "SalesUseCase.ExportSales", req, "UnsupportedFormat")
         ELSE IF ~readOK
         THEN Reply(w, "SalesUseCase.ExportSales", req, "StorageFailure")
         ELSE \E order \in Orderings(DateRangeMatches(sales, ParseFrom(req.from), ParseTo(req.to))) :
                /\ SortedByDateDesc(sales, order)
                /\ ReplyWith(w, "SalesUseCase.ExportSales", req, "OK",
                             [csv |-> <<SalesExportHeader>>
                                       \o [i \in DOMAIN order |-> SalesExportRow(sales, products, order[i], lookupOK)]])
    /\ UNCHANGED <<products, sales, W, rest>>

----------------------------------------------------------------------------
(* Session tokens: AuthUseCase.Login, generateJWT, ValidateToken *)

\* u.jwtSecret, and a key that is not the secret
JWTSecret == "secret-key"
OtherKey == "other-key"

\* *jwt.SigningMethodHMAC
HMACMethods == {"HS256", "HS384", "HS512"}

\* a compact JWT: the claims, the header's alg and the key its signature verifies under
Token(user_id, email, role, exp, iat, alg, key) ==
    [user_id |-> user_id, email |-> email, role |-> role, exp |-> exp, iat |-> iat,
     alg |-> alg, key |-> key, wellformed |-> TRUE]

\* a string that does not parse as header.claims.signature
Malformed == [Token("", "", "", 0, 0, "", "") EXCEPT !.wellformed = FALSE]

\* generateJWT: "exp" is computed from a first time.Now(), "iat" from a second one
GenerateJWT(id, user, t1, t2) ==
    Token(id, user.email, user.role, t1 + Hours24, t2, "HS256", JWTSecret)

\* jwt/v5 Validator.verifyExpiresAt: cmp.Before(exp)
NotExpired(token, t) == t < token.exp

\* ValidateToken: parse, keyfunc (HMAC only), signature under the secret, expiry
ValidateToken(token, t) ==
    /\ token.wellformed
    /\ token.alg \in HMACMethods
    /\ token.key = JWTSecret
    /\ NotExpired(token, t)

\* the jwt.MapClaims handed back
Claims(token) ==
    [user_id |-> token.user_id, email |-> token.email, role |-> token.role,
     exp |-> token.exp, iat |-> token.iat]

ValidLoginRequest(req) ==
    /\ Required(req.email, "") /\ IsEmail(req.email)
    /\ Required(req.password, "")

\* the instants the clock is observed at: around each day boundary
AuthInstants == {t \in {d * Hours24 + s : d \in 0..MaxDays, s \in {-1, 0, 1}} : t >= 0}

\* time passes
Tick(Instants) ==
    /\ \E t \in Instants : t > now /\ now' = t
    /\ UNCHANGED <<products, sales, pc, call, resp, faulted, W, users, categories, auth, tokens, disk>>

\* bcrypt.CompareHashAndPassword(user.Password, req.Password) == nil
PasswordMatches(user, req) == CompareHashAndPassword(user.password, req.password)

\* AuthHandler.Login: every error of the use case is answered 401
Login(w) ==
    /\ pc[w] = "idle"
    /\ Cardinality(tokens) < MaxTokens
    /\ \E email \in EmailInputs, password \in PasswordInputs, readOK \in BOOLEAN,
          t2 \in {now, now + 1} :
         LET req == [email |-> email, password |-> password]
             found == GetByEmail(users, email)
         IN
         IF ~ValidLoginRequest(req)
         THEN /\ t2 = now
              /\ Reply(w, "Login", req, "ValidationError")
              /\ UNCHANGED <<products, sales, W, rest>>
         ELSE IF ~readOK \/ found = {}
         THEN /\ t2 = now
              /\ Reply(w, "Login", req, "Unauthorized")
              /\ UNCHANGED <<products, sales, W, rest>>
         ELSE LET id == CHOOSE i \in found : TRUE IN
              IF ~users[id].is_active \/ ~PasswordMatches(users[id], req)
              THEN /\ t2 = now
                   /\ Reply(w, "Login", req, "Unauthorized")
                   /\ UNCHANGED <<products, sales, W, rest>>
              ELSE /\ t2 <= MaxDays * Hours24 + 1
                   /\ now' = t2
                   /\ tokens' = tokens \cup {GenerateJWT(id, users[id], now, t2)}
                   /\ ReplyWith(w, "Login", req, "OK",
                                [token |-> GenerateJWT(id, users[id], now, t2), user |-> id])
                   /\ UNCHANGED <<products, sales, W, users, categories, auth, disk>>

----------------------------------------------------------------------------
(* AuthMiddleware, and the profile route behind RequireAuth *)

\* variant: the token's user must still be stored and active
RequireAuth_ChecksUser(header, t) ==
    IF header = <<>> THEN "Unauthorized"
    ELSE IF Len(header) # 2 \/ header[1] # "Bearer" THEN "Unauthorized"
    ELSE IF ~ValidateToken(header[2], t) THEN "Unauthorized"
    ELSE IF header[2].user_id \notin DOMAIN users THEN "Unauthorized"
    ELSE IF ~users[header[2].user_id].is_active THEN "Unauthorized"
    ELSE "next"

\* the Authorization header as strings.Split(authHeader, " ") sees it;
\* <<>> is the absent header
RequireAuth(header, t) ==
    IF header = <<>> THEN "Unauthorized"
    ELSE IF Len(header) # 2 \/ header[1] # "Bearer" THEN "Unauthorized"
    ELSE IF ~ValidateToken(header[2], t) THEN "Unauthorized"
    ELSE "next"

\* variant: any authenticated caller passes
RequireAdmin_AnyRole(claims) == "next"

\* RequireAdmin on the role that RequireAuth put into the context
RequireAdmin(claims) == IF claims.role # "admin" THEN "Forbidden" ELSE "next"

\* the chain RequireAuth(), RequireAdmin() of the admin routes
AdminGate(header, t) ==
    IF RequireAuth(header, t) # "next" THEN RequireAuth(header, t)
    ELSE RequireAdmin(Claims(header[2]))

\* what a client without the secret can make of a token it holds
Forgeries(held) ==
    {[t EXCEPT !.key = OtherKey, !.role = "admin"] : t \in held}
       \cup {[t EXCEPT !.alg = "none", !.key = ""] : t \in held}
       \cup {Malformed}

Headers(held) ==
    {<<>>, <<"Bearer">>}
       \cup {<<"Basic", t>> : t \in held}
       \cup {<<"Bearer", t>> : t \in held \cup Forgeries(held)}

\* a request arrives at the slot with its Authorization header
Arrive(w) ==
    /\ pc[w] = "idle"
    /\ \E header \in Headers(tokens) : header # auth[w] /\ auth' = [auth EXCEPT ![w] = header]
    /\ UNCHANGED <<products, sales, pc, call, resp, faulted, W, users, categories, now, tokens, disk>>

\* GET /auth/profile: RequireAuth, then AuthHandler.GetProfile
GetProfile(w) ==
    /\ pc[w] = "idle"
    /\ \E readOK \in BOOLEAN :
         LET req == [authorization |-> auth[w]] IN
         IF RequireAuth(auth[w], now) # "next"
         THEN Reply(w, "GetProfile", req, RequireAuth(auth[w], now))
         ELSE LET claims == Claims(auth[w][2]) IN
              IF ~readOK
              THEN Reply(w, "GetProfile", req, "StorageFailure")
              ELSE IF claims.user_id \notin DOMAIN users
              THEN Reply(w, "GetProfile", req, "NotFound")
              ELSE ReplyWith(w, "GetProfile", req, "OK",
                             [claims |-> claims, user |-> users[claims.user_id]])
    /\ UNCHANGED <<products, sales, W, rest>>

\* the chain RequireAuth(), RequireAdmin() calls c.Next(): the handler runs
Admit(w) == AdminGate(auth[w], now) = "next"

\* the routes registered behind RequireAuth(), RequireAdmin()
AdminRoutes ==
    {"CreateProduct", "UpdateProduct", "DeleteProduct",
     "UpdateStock", "GetLowStockProducts", "GetStockSummary",
     "CreateSale", "GetSales", "GetSalesSummary", "GetSalesByProduct", "ExportSales",
     "CreateCategory", "DeleteCategory"}

\* c.JSON(401 or 403) and c.Abort(): the request ends in the middleware
GateReject(w) ==
    /\ pc[w] = "idle"
    /\ ~Admit(w)
    /\ \E route \in AdminRoutes :
         Reply(w, route, [authorization |-> auth[w]], AdminGate(auth[w], now))
    /\ UNCHANGED <<products, sales, W, rest>>

----------------------------------------------------------------------------
(* The two CreateSale use cases, each called as one call that runs to its end *)

\* the storage call of a CreateSale that fails, if any
SaleFaults == {"nil", "GetByID", "Create", "Update"}

\* what a call returns and leaves behind
Outcome(err, ps, ss) == [err |-> err, products |-> ps, sales |-> ss]

\* SaleUseCase.CreateSale: the sale at the request's price, the stock through UpdateStock
SaleUseCaseCreateSale(ps, ss, req, fault) ==
    IF fault = "GetByID" THEN Outcome("StorageFailure", ps, ss)
    ELSE IF req.product_id \notin DOMAIN ps THEN Outcome("NotFound", ps, ss)
    ELSE IF InsufficientStock(ps[req.product_id], req) THEN Outcome("InsufficientStock", ps, ss)
    ELSE IF fault = "Create" THEN Outcome("StorageFailure", ps, ss)
    ELSE IF fault = "Update" THEN Outcome("StorageFailure", ps, SaleRepoCreate(ss, NewSale(req)))
    ELSE Outcome("nil",
                 RepoUpdateStock(ps, req.product_id, NewStock(ps[req.product_id], req)),
                 SaleRepoCreate(ss, NewSale(req)))

\* variant: the sold quantity is put back on the product
SoldProduct_Restocked(product, req) == [product EXCEPT !.stock = @ + req.quantity]

\* product.Stock -= req.Quantity on the product read at the start
SoldProduct(product, req) == [product EXCEPT !.stock = @ - req.quantity]

\* SalesUseCase.CreateSale: sale.Price and total from the product's price
CatalogSale(product, req) ==
    Sale(req.product_id, req.quantity, product.price, product.price * req.quantity, now)

\* SalesUseCase.CreateSale: the sale at the catalog price, the stock through Update
SalesUseCaseCreateSale(ps, ss, req, fault) ==
    IF fault = "GetByID" THEN Outcome("StorageFailure", ps, ss)
    ELSE IF req.product_id \notin DOMAIN ps THEN Outcome("NotFound", ps, ss)
    ELSE IF ps[req.product_id].stock < req.quantity THEN Outcome("InsufficientStock", ps, ss)
    ELSE IF fault = "Create" THEN Outcome("StorageFailure", ps, ss)
    ELSE IF fault = "Update"
    THEN Outcome("StorageFailure", ps, SaleRepoCreate(ss, CatalogSale(ps[req.product_id], req)))
    ELSE Outcome("nil",
                 RepoUpdate(ps, req.product_id, SoldProduct(ps[req.product_id], req)),
                 SaleRepoCreate(ss, CatalogSale(ps[req.product_id], req)))

\* the requests a use case may be handed
SaleRequests ==
    [product_id : ProductIDs \cup {MissingID}, quantity : Quantities, price : Prices]

\* one call of SaleUseCase.CreateSale
WiredCreateSale(w) ==
    /\ pc[w] = "idle"
    /\ Len(sales) < MaxSales
    /\ \E req \in SaleRequests, fault \in SaleFaults :
         LET out == SaleUseCaseCreateSale(products, sales, req, fault) IN
         /\ products' = out.products
         /\ sales' = out.sales
         /\ Reply(w, "SaleUseCase.CreateSale", req, out.err)
    /\ UNCHANGED <<W, rest>>

\* one call of SalesUseCase.CreateSale
UnwiredCreateSale(w) ==
    /\ pc[w] = "idle"
    /\ Len(sales) < MaxSales
    /\ \E req \in SaleRequests, fault \in SaleFaults :
         LET out == SalesUseCaseCreateSale(products, sales, req, fault) IN
         /\ products' = out.products
         /\ sales' = out.sales
         /\ Reply(w, "SalesUseCase.CreateSale", req, out.err)
    /\ UNCHANGED <<W, rest>>

----------------------------------------------------------------------------
(* Specifications *)

\* nothing registered, no category, the clock at its origin, no header sent
InitRest ==
    /\ users = [id \in {} |-> 0]
    /\ categories = [id \in {} |-> 0]
    /\ now = 0
    /\ auth = [w \in Slots |-> <<>>]
    /\ tokens = {}
    /\ disk = {}

SeedProduct(name, price, stock) ==
    Product(name, "d", price, "c", "b", "u1", <<URLImage("u1", TRUE)>>, stock, TRUE)

\* one request at a time, two stored products; the second one may carry the
\* negative stock that the multipart create path lets through
Init ==
    /\ \E s2 \in {-1, 1} :
         products = [id \in ProductIDs |->
                       IF id = "p1" THEN SeedProduct("a", 2, MaxStock) ELSE SeedProduct("b", 1, s2)]
    /\ sales = <<>>
    /\ pc = [w \in Slots |-> "idle"]
    /\ call = [w \in Slots |-> NoCall]
    /\ resp = NoResp
    /\ faulted = FALSE
    /\ W = {1}
    /\ InitRest

\* two requests in flight on one seeded product
InitRace ==
    /\ products = [id \in {"p1"} |-> SeedProduct("a", 2, MaxStock)]
    /\ sales = <<>>
    /\ pc = [w \in Slots |-> "idle"]
    /\ call = [w \in Slots |-> NoCall]
    /\ resp = NoResp
    /\ faulted = FALSE
    /\ W = Slots
    /\ InitRest

NextSale == \E w \in W : SaleBegin(w) \/ SaleInsert(w) \/ SaleStockWrite(w) \/ Return(w)

NextStock == \E w \in W : StockBegin(w) \/ StockWrite(w)

Next == NextSale \/ NextStock

Spec == Init /\ [][Next]_vars

SpecRace == InitRace /\ [][NextSale]_vars

\* calls of either CreateSale, one at a time
NextTwin == \E w \in W : WiredCreateSale(w) \/ UnwiredCreateSale(w) \/ Return(w)

SpecTwin == Init /\ [][NextTwin]_vars

\* sales and stock updates in flight together on one seeded product
SpecInterleaved == InitRace /\ [][Next]_vars

NextVanish ==
    \/ NextSale
    \/ NextStock
    \/ \E w \in W : DeleteBegin(w) \/ DeleteWrite(w)

\* the product may be deleted while a sale or a stock update is in flight
SpecVanish == InitRace /\ [][NextVanish]_vars

\* an empty catalog, one request at a time
InitCatalog ==
    /\ products = [id \in {} |-> 0]
    /\ sales = <<>>
    /\ pc = [w \in Slots |-> "idle"]
    /\ call = [w \in Slots |-> NoCall]
    /\ resp = NoResp
    /\ faulted = FALSE
    /\ W = {1}
    /\ InitRest

\* one product as the JSON create path stores it
InitFields ==
    /\ products = [id \in CatalogIDs |->
                     CreateProduct([name |-> "a", description |-> "a", price |-> 1,
                                    category |-> "a", brand |-> "a", image_url |-> "",
                                    image_urls |-> <<>>, stock |-> 1])]
    /\ sales = <<>>
    /\ pc = [w \in Slots |-> "idle"]
    /\ call = [w \in Slots |-> NoCall]
    /\ resp = NoResp
    /\ faulted = FALSE
    /\ W = {1}
    /\ InitRest

NextCreate ==
    \E w \in W :
       \/ CreateJSONBegin(w, FieldCreateReqs)
       \/ CreateFilesBegin(w, FieldCreateReqs, NoUploads)
       \/ CreateWrite(w)
       \/ DeleteBegin(w)
       \/ DeleteWrite(w)
       \/ Return(w)

NextFields ==
    \E w \in W :
       \/ UpdateJSONBegin(w, AllFieldUpdateReqs)
       \/ UpdateFilesBegin(w, AllFieldUpdateReqs, NoUploads)
       \/ UpdateWrite(w)
       \/ Return(w)

NextImages ==
    \E w \in W :
       \/ CreateJSONBegin(w, ImageCreateReqs)
       \/ CreateFilesBegin(w, ImageCreateReqs, Uploads)
       \/ CreateWrite(w)
       \/ UpdateJSONBegin(w, ImageUpdateReqs)
       \/ UpdateFilesBegin(w, ImageUpdateReqs, Uploads)
       \/ UpdateWrite(w)
       \/ DeleteBegin(w)
       \/ DeleteWrite(w)
       \/ Return(w)

SpecCreate == InitCatalog /\ [][NextCreate]_vars

SpecFields == InitFields /\ [][NextFields]_vars

SpecImages == InitCatalog /\ [][NextImages]_vars

\* a rename, or nothing at all
LookupUpdateReqs ==
    [name : {"", "b"}, description : {""}, price : {0}, category : {""},
     brand : {""}, image_url : {""}, image_urls : {<<>>}, stock : {-1},
     is_active : {<<>>}]

\* no file, one that is saved, or one that is refused
LookupUploads == {<<>>, <<GoodUpload>>, <<LargeUpload>>}

\* one seeded product, one request at a time
InitLookup ==
    /\ products = [id \in CatalogIDs |-> SeedProduct("a", 2, MaxStock)]
    /\ sales = <<>>
    /\ pc = [w \in Slots |-> "idle"]
    /\ call = [w \in Slots |-> NoCall]
    /\ resp = NoResp
    /\ faulted = FALSE
    /\ W = {1}
    /\ InitRest

\* the five operations that address a product by id
NextLookup ==
    \E w \in W :
       \/ SaleBegin(w) \/ SaleInsert(w) \/ SaleStockWrite(w)
       \/ StockBegin(w) \/ StockWrite(w)
       \/ UpdateJSONBegin(w, LookupUpdateReqs)
       \/ UpdateFilesBegin(w, LookupUpdateReqs, LookupUploads)
       \/ UpdateWrite(w)
       \/ DeleteBegin(w)
       \/ DeleteWrite(w)
       \/ Return(w)

SpecLookup == InitLookup /\ [][NextLookup]_vars

\* two accounts; the second one may be missing or deactivated
InitToken ==
    /\ \E second \in {"none", "active", "inactive"} :
         users = [id \in (IF second = "none" THEN {"u1"} ELSE {"u1", "u2"}) |->
                    IF id = "u1"
                    THEN User("a@x", GenerateFromPassword("secret"), "n", "user", TRUE)
                    ELSE User("b@x", GenerateFromPassword("hunter2"), "n", "admin",
                              second = "active")]
    /\ products = [id \in {} |-> 0]
    /\ sales = <<>>
    /\ pc = [w \in Slots |-> "idle"]
    /\ call = [w \in Slots |-> NoCall]
    /\ resp = NoResp
    /\ faulted = FALSE
    /\ W = {1}
    /\ categories = [id \in {} |-> 0]
    /\ now = 0
    /\ auth = [w \in Slots |-> <<>>]
    /\ tokens = {}
    /\ disk = {}

NextToken ==
    \/ \E w \in W : Login(w) \/ Arrive(w) \/ GetProfile(w) \/ Return(w)
    \/ Tick(AuthInstants)

SpecToken == InitToken /\ [][NextToken]_vars

\* categories created and deleted, one request at a time
NextCategory ==
    \E w \in W :
       \/ CategoryCreateBegin(w)
       \/ CategoryCreateCheck(w)
       \/ CategoryCreateInsert(w)
       \/ CategoryDeleteBegin(w)
       \/ CategoryDeleteWrite(w)
       \/ Return(w)

SpecCategory == InitCatalog /\ [][NextCategory]_vars

\* registration on an empty user collection, one request at a time
NextRegister == \E w \in W : RegisterBegin(w) \/ RegisterWrite(w) \/ Return(w)

SpecRegister == InitCatalog /\ [][NextRegister]_vars

\* the routes registered without middleware, one request at a time
NextPublic == \E w \in W : RegisterBegin(w) \/ RegisterWrite(w) \/ Login(w) \/ Return(w)

SpecPublic == InitCatalog /\ [][NextPublic]_vars

\* GET /sales by product and by date, in pages of one or of the default size
SaleFilters ==
    [from : {NoDay, 0}, to : {NoDay, BadDay, 0}, product_id : {"", "p1", "bad"}, page : {0, 2}, limit : {0, 1}]

\* a stored product of the reports: its category, stock and activity vary
ReportProduct(name, category, stock, is_active) ==
    Product(name, "d", 2, category, "b", "u1", <<URLImage("u1", TRUE)>>, stock, is_active)

\* noon of a report day
Noon(d) == DayStart(d) + Hours24 \div 2

\* the sales recorded so far: CreateSale stamps each with the clock, so their
\* dates do not decrease and none lies after now
RecordedSales ==
    {ss \in UNION {[1..n -> {Sale(id, q, 2, 2 * q, Noon(d)) : id \in ProductIDs, q \in {1, 2}, d \in ReportDays}]
                     : n \in 0..MaxSales} :
        \A i, j \in DOMAIN ss : i < j => ss[i].date_sold <= ss[j].date_sold}

\* the catalog and the sales the reports run over: "p1" is stored, "p2" is
\* stored in either category, active or not, or has been deleted after its sales
InitReports ==
    /\ \E present \in BOOLEAN, category \in {"c", "k"}, stock \in {9, 10}, is_active \in BOOLEAN :
         products = [id \in (IF present THEN {"p1", "p2"} ELSE {"p1"}) |->
                       IF id = "p1" THEN ReportProduct("a", "c", 10, TRUE)
                       ELSE ReportProduct("b", category, stock, is_active)]
    /\ sales \in RecordedSales
    /\ pc = [w \in Slots |-> "idle"]
    /\ call = [w \in Slots |-> NoCall]
    /\ resp = NoResp
    /\ faulted = FALSE
    /\ W = {1}
    /\ users = [id \in {} |-> 0]
    /\ categories = [id \in {} |-> 0]
    /\ \E d \in ReportDays : now = Noon(d) /\ \A i \in DOMAIN sales : sales[i].date_sold <= now
    /\ auth = [w \in Slots |-> <<>>]
    /\ tokens = {}
    /\ disk = {}

NextReports ==
    \E w \in W :
       \/ GetStockSummary(w)
       \/ LowStockRoute(w, {0, 10, 11})
       \/ GetSalesRoute(w, SaleFilters)
       \/ SalesSummaryRoute(w, DateQueries)
       \/ SalesByProductRoute(w, DateQueries)
       \/ ExportSalesRoute(w, ExportQueries)
       \/ SalesUseCaseExport(w)
       \/ Return(w)

SpecReports == InitReports /\ [][NextReports]_vars

\* the instants around the expiry of a token issued at second 0
GateInstants == {Hours24 - 1, Hours24}

GateCreateReqs ==
    {[name |-> "a", description |-> "a", price |-> 1, category |-> "a", brand |-> "a",
      image_url |-> "", image_urls |-> <<>>, stock |-> 1]}

GateUpdateReqs ==
    {[name |-> "b", description |-> "", price |-> 0, category |-> "", brand |-> "",
      image_url |-> "", image_urls |-> <<>>, stock |-> -1, is_active |-> <<>>]}

GateDateQueries == {[from |-> NoDay, to |-> NoDay]}

GateExportQueries == {[from |-> 0, to |-> 1, format |-> "csv"]}

GateSaleFilters == {[from |-> NoDay, to |-> NoDay, product_id |-> "", page |-> 0, limit |-> 0]}

\* one seeded product, a user and an administrator who both logged in at second 0
InitGate ==
    /\ products = [id \in CatalogIDs |-> SeedProduct("a", 2, MaxStock)]
    /\ sales = <<>>
    /\ pc = [w \in Slots |-> "idle"]
    /\ call = [w \in Slots |-> NoCall]
    /\ resp = NoResp
    /\ faulted = FALSE
    /\ W = {1}
    /\ users = [id \in {"u1", "u2"} |->
                  IF id = "u1"
                  THEN User("a@x", GenerateFromPassword("secret"), "n", "user", TRUE)
                  ELSE User("b@x", GenerateFromPassword("hunter2"), "n", "admin", TRUE)]
    /\ categories = [id \in {} |-> 0]
    /\ now = 0
    /\ auth = [w \in Slots |-> <<>>]
    /\ tokens = {GenerateJWT(id, users[id], 0, 0) : id \in {"u1", "u2"}}
    /\ disk = {}

\* every admin route behind its middleware chain; a handler that was let
\* through runs to its end
NextGate ==
    \/ \E w \in W :
          \/ Arrive(w)
          \/ GateReject(w)
          \/ Admit(w) /\ CreateJSONBegin(w, GateCreateReqs)
          \/ Admit(w) /\ CreateFilesBegin(w, GateCreateReqs, NoUploads)
          \/ CreateWrite(w)
          \/ Admit(w) /\ UpdateJSONBegin(w, GateUpdateReqs)
          \/ Admit(w) /\ UpdateFilesBegin(w, GateUpdateReqs, NoUploads)
          \/ UpdateWrite(w)
          \/ Admit(w) /\ DeleteBegin(w)
          \/ DeleteWrite(w)
          \/ Admit(w) /\ StockBegin(w)
          \/ StockWrite(w)
          \/ Admit(w) /\ LowStockRoute(w, {0})
          \/ Admit(w) /\ GetStockSummary(w)
          \/ Admit(w) /\ sales = <<>> /\ SaleBegin(w)
          \/ SaleInsert(w)
          \/ SaleStockWrite(w)
          \/ Admit(w) /\ GetSalesRoute(w, GateSaleFilters)
          \/ Admit(w) /\ SalesSummaryRoute(w, GateDateQueries)
          \/ Admit(w) /\ SalesByProductRoute(w, GateDateQueries)
          \/ Admit(w) /\ ExportSalesRoute(w, GateExportQueries)
          \/ Admit(w) /\ DOMAIN categories = {} /\ CategoryCreateBegin(w)
          \/ CategoryCreateCheck(w)
          \/ CategoryCreateInsert(w)
          \/ Admit(w) /\ CategoryDeleteBegin(w)
          \/ CategoryDeleteWrite(w)
          \/ Return(w)
    \/ Tick(GateInstants)

SpecGate == InitGate /\ [][NextGate]_vars

\* the accounts as they were when their tokens were issued
IssuedUsers ==
    [id \in {"u1", "u2"} |->
       IF id = "u1"
       THEN User("a@x", GenerateFromPassword("secret"), "n", "user", TRUE)
       ELSE User("b@x", GenerateFromPassword("hunter2"), "n", "admin", TRUE)]

\* what the user collection may have become since: each account deleted, or
\* kept with any role, active or not
StaleUsers ==
    UNION {[kept -> [email : {"a@x", "b@x"}, password : {<<"bcrypt", "secret">>, <<"bcrypt", "hunter2">>},
                     name : {"n"}, role : Roles, is_active : BOOLEAN]] :
              kept \in SUBSET {"u1", "u2"}}

\* the tokens of both accounts were issued at second 0; the accounts have
\* changed since
InitStale ==
    /\ products = [id \in CatalogIDs |-> SeedProduct("a", 2, MaxStock)]
    /\ sales = <<>>
    /\ pc = [w \in Slots |-> "idle"]
    /\ call = [w \in Slots |-> NoCall]
    /\ resp = NoResp
    /\ faulted = FALSE
    /\ W = {1}
    /\ users \in {us \in StaleUsers :
                    \A id \in DOMAIN us : /\ us[id].email = IssuedUsers[id].email
                                          /\ us[id].password = IssuedUsers[id].password}
    /\ categories = [id \in {} |-> 0]
    /\ now = 0
    /\ auth = [w \in Slots |-> <<>>]
    /\ tokens = {GenerateJWT(id, IssuedUsers[id], 0, 0) : id \in {"u1", "u2"}}
    /\ disk = {}

\* an admin route and the profile route behind their middleware
NextStale ==
    \/ \E w \in W :
          \/ Arrive(w)
          \/ GateReject(w)
          \/ Admit(w) /\ StockBegin(w)
          \/ StockWrite(w)
          \/ GetProfile(w)
          \/ Return(w)
    \/ Tick(GateInstants)

SpecStale == InitStale /\ [][NextStale]_vars

\* the files next to the upload directory: a sibling directory and a system file
OutsideFiles == {Located(UploadDir \o <<"-old", "/", "f1">>), Located(<<"etc", "/", "passwd">>)}

InitFiles ==
    /\ products = [id \in {} |-> 0]
    /\ sales = <<>>
    /\ pc = [w \in Slots |-> "idle"]
    /\ call = [w \in Slots |-> NoCall]
    /\ resp = NoResp
    /\ faulted = FALSE
    /\ W = {1}
    /\ users = [id \in {} |-> 0]
    /\ categories = [id \in {} |-> 0]
    /\ now = 0
    /\ auth = [w \in Slots |-> <<>>]
    /\ tokens = {}
    /\ disk = OutsideFiles

NextFiles == \E w \in W : Upload(w) \/ Remove(w) \/ Return(w)

SpecFiles == InitFiles /\ [][NextFiles]_vars

----------------------------------------------------------------------------
(* Properties of the inventory and sales operations *)

RECURSIVE SumQty(_, _)
SumQty(ss, id) ==
    IF ss = <<>> THEN 0
    ELSE (IF Head(ss).product_id = id THEN Head(ss).quantity ELSE 0) + SumQty(Tail(ss), id)

Stored(id) == id \in DOMAIN products

\* C1: a product whose stock is >= 0 keeps a stock >= 0 through every step of
\* validated UpdateStock and CreateSale calls.
C1_StockStaysNonNegative ==
    [][\A id \in DOMAIN products :
         (id \in DOMAIN products' /\ products[id].stock >= 0) => products'[id].stock >= 0]_vars

\* a sale has sold a product out
C1_Witness ==
    /\ resp.op = "CreateSale" /\ resp.kind = "Created"
    /\ products[resp.req.product_id].stock = 0

\* C2: CreateSale on a stored product with quantity > stock is rejected with
\* InsufficientStock (unless the read of the product itself fails), inserts no
\* sale and changes no product; it is rejected that way only when
\* quantity > stock (quantity = stock goes through).
C2_OversizedSaleRejected ==
    [][\A w \in W :
         /\ (pc[w] = "idle" /\ pc'[w] = "sale_create")
               => /\ Stored(call'[w].req.product_id)
                  /\ call'[w].req.quantity <= products[call'[w].req.product_id].stock
         /\ (pc[w] = "idle" /\ resp'.w = w /\ resp'.op = "CreateSale"
                /\ resp'.kind = "InsufficientStock")
               => /\ Stored(resp'.req.product_id)
                  /\ resp'.req.quantity > products[resp'.req.product_id].stock
                  /\ products' = products /\ sales' = sales
         /\ (pc[w] = "idle" /\ resp'.w = w /\ resp'.op = "CreateSale"
                /\ ValidCreateSaleRequest(resp'.req)
                /\ Stored(resp'.req.product_id)
                /\ resp'.req.quantity > products[resp'.req.product_id].stock)
               => /\ resp'.kind \in {"InsufficientStock", "StorageFailure"}
                  /\ products' = products /\ sales' = sales]_vars

\* the scenario of the spec: quantity = stock + 1 was rejected
C2_Witness ==
    /\ resp.op = "CreateSale" /\ resp.kind = "InsufficientStock"
    /\ resp.req.quantity = products[resp.req.product_id].stock + 1
    /\ products[resp.req.product_id].stock > 0

\* C3: with one request at a time, a successful CreateSale(pid, q, p) inserts
\* exactly the record (pid, q, p, q*p), lowers the stock of pid by q and changes
\* nothing else; every stored sale has total = quantity * price.
C3_SaleEffect ==
    [][\A w \in W :
         /\ (pc[w] = "idle" /\ pc'[w] = "sale_create")
               => (products' = products /\ sales' = sales)
         /\ (pc[w] = "sale_create" /\ pc'[w] = "sale_stock")
               => /\ sales' = Append(sales, [product_id |-> call[w].req.product_id,
                                             quantity |-> call[w].req.quantity,
                                             price |-> call[w].req.price,
                                             total |-> call[w].req.quantity * call[w].req.price,
                                             date_sold |-> now])
                  /\ products' = products
         /\ (pc[w] = "sale_stock" /\ resp'.kind = "Created")
               => /\ sales' = sales
                  /\ products' = [products EXCEPT ![resp'.req.product_id].stock =
                                     products[resp'.req.product_id].stock - resp'.req.quantity]
         /\ \A i \in 1..Len(sales') : sales'[i].total = sales'[i].quantity * sales'[i].price]_vars

\* a sale of two units succeeded at a price that differs from the catalog price
C3_Witness ==
    /\ resp.op = "CreateSale" /\ resp.kind = "Created"
    /\ resp.req.quantity = 2
    /\ resp.req.price # products[resp.req.product_id].price
    /\ sales[Len(sales)].total = 2 * resp.req.price

\* C4: with interleaved CreateSale calls the stock taken off a product (its
\* initial stock MaxStock minus its stored stock) never exceeds the quantity of
\* its stored sales; the gap is the oversubscription that racing sales open.
C4_RemovedAtMostSold ==
    \A id \in DOMAIN products : MaxStock - products[id].stock <= SumQty(sales, id)

\* without any storage failure, two sales of one product have both succeeded
\* and sold more than the stock taken off the product
C4_Witness ==
    /\ ~faulted
    /\ \A w \in W : pc[w] \in {"idle", "replied"}
    /\ Len(sales) = 2
    /\ SumQty(sales, "p1") > MaxStock
    /\ SumQty(sales, "p1") > MaxStock - products["p1"].stock

\* C5: when the stock write of CreateSale fails after the sale was inserted,
\* the call ends with an error, the sale stays stored and no product changes.
C5_NoRollback ==
    [][\A w \in W :
         (pc[w] = "sale_stock" /\ pc'[w] # "sale_stock")
            => \/ /\ resp'.kind = "Created"
                  /\ sales' = sales
               \/ /\ resp'.kind = "StorageFailure" /\ resp'.op = "CreateSale" /\ resp'.w = w
                  /\ pc'[w] = "replied"
                  /\ sales' = sales
                  /\ \E i \in 1..Len(sales') : sales'[i] = NewSale(call[w].req)
                  /\ products' = products]_vars

\* the inconsistent state: an error was returned, the sale is stored, the stock is whole
C5_Witness ==
    /\ resp.op = "CreateSale" /\ resp.kind = "StorageFailure"
    /\ Len(sales) = 1
    /\ sales[1].product_id = "p1"
    /\ products["p1"].stock = MaxStock

\* C10: UpdateStock(id, n) on a stored product is accepted for every n >= 0
\* (n = 0 included) and then stores n, leaving everything else alone; n < 0 is
\* a ValidationError that touches nothing.
C10_UpdateStockAcceptsNonNegative ==
    [][\A w \in W :
         /\ (pc[w] = "idle" /\ resp'.w = w /\ resp'.op = "UpdateStock")
               => /\ (resp'.kind = "ValidationError") <=> (resp'.req.stock < 0)
                  /\ products' = products /\ sales' = sales
         /\ (pc[w] = "stock_write" /\ resp'.kind = "OK")
               => /\ products' = [products EXCEPT ![resp'.req.id].stock = resp'.req.stock]
                  /\ sales' = sales]_vars

ByIDOps == {"UpdateProduct", "UpdateProductFiles", "DeleteProduct", "UpdateStock", "CreateSale"}

AddressedID(req) == IF "product_id" \in DOMAIN req THEN req.product_id ELSE req.id

\* the request was well-formed as far as the handler checks before the lookup
WellFormed(op, req) ==
    CASE op = "CreateSale" -> ValidCreateSaleRequest(req)
      [] op = "UpdateStock" -> ValidStockUpdateRequest(req)
      [] OTHER -> TRUE

\* C11: UpdateProduct, UpdateProductWithImages, DeleteProduct, UpdateStock and
\* CreateSale, called with a well-formed request for an id that is not stored,
\* fail with NotFound (a failed read or a rejected upload aside) and change
\* neither the products nor the sales; none of them gets past its lookup.
C11_MissingProductNotFound ==
    [][\A w \in W :
         /\ (pc[w] = "idle" /\ pc'[w] \notin {"idle", "replied"})
               => (IF "id" \in DOMAIN call'[w] THEN call'[w].id ELSE AddressedID(call'[w].req))
                     \in DOMAIN products
         /\ (pc[w] = "idle" /\ resp'.w = w /\ resp'.op \in ByIDOps
                /\ AddressedID(resp'.req) \notin DOMAIN products)
               => /\ products' = products /\ sales' = sales
                  /\ \/ resp'.kind = "NotFound"
                     \/ resp'.kind = "StorageFailure"
                     \/ resp'.kind = "ValidationError" /\ ~WellFormed(resp'.op, resp'.req)
                     \/ resp'.kind = "UploadRejected" /\ resp'.op = "UpdateProductFiles"
         /\ (resp'.w = w /\ resp'.op \in ByIDOps /\ resp'.kind = "NotFound")
               => /\ pc[w] = "idle"
                  /\ AddressedID(resp'.req) \notin DOMAIN products
                  /\ products' = products /\ sales' = sales]_vars

\* a sale on an id that is not stored is refused and the earlier sale stays as it is
C11_Witness ==
    /\ resp.op = "CreateSale" /\ resp.kind = "NotFound"
    /\ AddressedID(resp.req) \notin DOMAIN products
    /\ Len(sales) = 1

----------------------------------------------------------------------------
(* Properties of the catalog operations *)

PrimaryCount(images) == Cardinality({i \in 1..Len(images) : images[i].is_primary})

URLImageIndexes(images) == {i \in 1..Len(images) : images[i].is_url}

\* C6: a successful UpdateProduct / UpdateProductWithImages keeps the stored
\* value of each of name, description, category, brand, price and stock whose
\* request field is empty / zero.
C6_AbsentFieldsKept ==
    [][\A w \in W :
         (pc[w] = "update_write" /\ resp'.kind = "OK" /\ call[w].id \in DOMAIN products)
            => LET old == products[call[w].id]
                   new == products'[call[w].id]
                   req == call[w].req
               IN  /\ (req.name = "") => (new.name = old.name)
                   /\ (req.description = "") => (new.description = old.description)
                   /\ (req.category = "") => (new.category = old.category)
                   /\ (req.brand = "") => (new.brand = old.brand)
                   /\ (req.price = 0) => (new.price = old.price)
                   /\ (req.stock = 0) => (new.stock = old.stock)]_vars

\* C7: every stored product with a non-empty image collection has exactly one
\* primary image.
C7_ExactlyOnePrimary ==
    \A id \in DOMAIN products :
       Len(products[id].images) > 0 => PrimaryCount(products[id].images) = 1

\* C8: in every stored product with exactly one URL-based image, image_url is
\* the URL of that image.
C8_LegacyURLInSync ==
    \A id \in DOMAIN products :
       LET images == products[id].images IN
       Cardinality(URLImageIndexes(images)) = 1
          => \A i \in URLImageIndexes(images) : products[id].image_url = images[i].url

CreateOps == {"CreateProduct", "CreateProductFiles"}

AcceptableCreate(req) ==
    req.name # "" /\ req.price > 0 /\ req.category # "" /\ req.stock >= 0

\* C9: on both create paths a request is accepted exactly if name and category
\* are non-empty, price > 0 and stock >= 0; a rejection is a ValidationError
\* that stores nothing, and no product with negative stock is ever stored.
C9_CreateAcceptedIffValid ==
    [][/\ \A w \in W :
            /\ (pc[w] = "idle" /\ pc'[w] = "create_write") => AcceptableCreate(call'[w].req)
            /\ (pc[w] = "idle" /\ resp'.w = w /\ resp'.op \in CreateOps)
                  => /\ resp'.kind = "ValidationError"
                     /\ ~AcceptableCreate(resp'.req)
                     /\ products' = products
       /\ \A id \in DOMAIN products' : products'[id].stock >= 0]_vars

----------------------------------------------------------------------------
(* Properties of the accounts *)

RequestedRole(req) == IF req.role = "" THEN "user" ELSE req.role

\* C12: Register with the email of a stored user fails with Conflict and
\* stores nothing; Register with a fresh email stores exactly one new user,
\* active, with the requested role or `user` when none is given; no two stored
\* users ever share an email.
C12_RegisterKeepsEmailsUnique ==
    [][\A w \in W :
         /\ (pc[w] = "idle" /\ resp'.w = w /\ resp'.op = "Register"
                /\ ValidCreateUserRequest(resp'.req))
               => /\ users' = users
                  /\ resp'.kind \in {"Conflict", "StorageFailure"}
                  /\ (resp'.kind = "Conflict")
                        => \E id \in DOMAIN users : users[id].email = resp'.req.email
         /\ (pc[w] = "idle" /\ pc'[w] = "register_write")
               => /\ users' = users
                  /\ \A id \in DOMAIN users : users[id].email # call'[w].req.email
         /\ (pc[w] = "register_write" /\ resp'.kind = "Created")
               => \E id \in DOMAIN users' \ DOMAIN users :
                     /\ DOMAIN users' = DOMAIN users \cup {id}
                     /\ \A old \in DOMAIN users : users'[old] = users[old]
                     /\ users'[id].email = resp'.req.email
                     /\ users'[id].is_active
                     /\ users'[id].role = RequestedRole(resp'.req)
         /\ \A i, j \in DOMAIN users' : (i # j) => (users'[i].email # users'[j].email)]_vars

\* two accounts exist, one of them an admin, and a third registration was refused
C12_Witness ==
    /\ resp.op = "Register" /\ resp.kind = "Conflict"
    /\ Cardinality(DOMAIN users) = 2
    /\ \E i, j \in DOMAIN users : users[i].role = "admin" /\ users[j].role = "user"

\* the stored user a login request names and may log in as
Authenticates(id, req) ==
    /\ users[id].email = req.email
    /\ users[id].is_active
    /\ CompareHashAndPassword(users[id].password, req.password)

\* C13: Login issues a token only if a user with the given email is stored,
\* is active and the password matches the stored hash, and otherwise fails
\* with Unauthorized and issues nothing; the token carries the user's id,
\* email and current role, and its expiry is exactly 24 hours after its
\* issue time.
C13_LoginIssuesTokenIffAuthenticated ==
    [][\A w \in W :
         (pc[w] = "idle" /\ resp'.w = w /\ resp'.op = "Login")
            => /\ (resp'.kind = "OK")
                     => \E id \in DOMAIN users :
                           /\ Authenticates(id, resp'.req)
                           /\ tokens' = tokens \cup {resp'.body.token}
                           /\ resp'.body.token.user_id = id
                           /\ resp'.body.token.email = users[id].email
                           /\ resp'.body.token.role = users[id].role
                           /\ resp'.body.token.exp = resp'.body.token.iat + Hours24
               /\ (resp'.kind # "OK") => (tokens' = tokens)
               /\ (ValidLoginRequest(resp'.req)
                      /\ ~\E id \in DOMAIN users : Authenticates(id, resp'.req))
                     => resp'.kind = "Unauthorized"]_vars

\* C14: a token issued by Login at time t passes ValidateToken, which hands
\* back the claims embedded at issue, at every time up to t + 24h and is
\* rejected with Unauthorized at every later time; a token that is malformed
\* or not signed with the secret by an HMAC method is rejected at every time.
C14_TokenValidFor24Hours ==
    [][\A w \in W :
         (pc[w] = "idle" /\ resp'.w = w /\ resp'.op = "GetProfile"
            /\ Len(auth[w]) = 2 /\ auth[w][1] = "Bearer")
            => LET token == auth[w][2] IN
               /\ (token \in tokens)
                     => /\ (resp'.kind # "Unauthorized") <=> (now <= token.iat + Hours24)
                        /\ (resp'.kind = "OK") => (resp'.body.claims = Claims(token))
               /\ (token \notin tokens) => (resp'.kind = "Unauthorized")]_vars

----------------------------------------------------------------------------
(* Properties of the categories *)

NamedAs(cs, name) == {id \in DOMAIN cs : cs[id].name = name}

\* C16: CreateCategory with a name that is not stored stores one category
\* with that name under a non-empty id, and a lookup by that name then finds
\* it; with a stored name it fails with Conflict and stores nothing; no two
\* stored categories ever share a name.
C16_CategoryNamesUnique ==
    [][\A w \in W :
         /\ (pc[w] = "idle" /\ resp'.w = w /\ resp'.op = "CreateCategory"
                /\ resp'.req.name # "")
               => /\ categories' = categories
                  /\ resp'.kind \in {"Conflict", "StorageFailure"}
                  /\ (resp'.kind = "Conflict") => (NamedAs(categories, resp'.req.name) # {})
         /\ (pc[w] = "idle" /\ pc'[w] = "category_check")
               => /\ categories' = categories
                  /\ NamedAs(categories, call'[w].req.name) = {}
         /\ (pc[w] # "idle" /\ resp'.w = w /\ resp'.op = "CreateCategory")
               => IF resp'.kind = "Created"
                  THEN /\ NamedAs(categories, resp'.req.name) = {}
                       /\ \E id \in DOMAIN categories' \ DOMAIN categories :
                             /\ id # ""
                             /\ resp'.body.id = id
                             /\ DOMAIN categories' = DOMAIN categories \cup {id}
                             /\ \A old \in DOMAIN categories : categories'[old] = categories[old]
                             /\ NamedAs(categories', resp'.req.name) = {id}
                             /\ CategoryGetByName(categories', resp'.req.name) = {id}
                  ELSE categories' = categories
         /\ \A i, j \in DOMAIN categories' :
               (i # j) => (categories'[i].name # categories'[j].name)]_vars

\* a second category was created next to the first and is found by its name
C16_Witness ==
    /\ resp.op = "CreateCategory" /\ resp.kind = "Created"
    /\ Cardinality(DOMAIN categories) = 2
    /\ CategoryGetByName(categories, resp.req.name) = {resp.body.id}
    /\ categories[resp.body.id].name = resp.req.name

----------------------------------------------------------------------------
(* Properties of the reports *)

\* the active products stored under a category
ActiveIn(category) ==
    {id \in DOMAIN products : products[id].is_active /\ products[id].category = category}

\* C17: a stock summary has, for every category with at least one active
\* product, one entry with the number of its active products, the sum of their
\* stock and the sum of stock * price over them; inactive products count for
\* nothing; total_products and total_stock_value are the sums of product_count
\* and total_value over the entries; low_stock_products is the number of
\* active products with stock < 10.
C17_StockSummaryPerCategory ==
    (resp.op = "GetStockSummary" /\ resp.kind = "OK") =>
       LET entries == resp.body.categories
           stocked == {products[id].category : id \in {p \in DOMAIN products : products[p].is_active}}
       IN  /\ \A category \in stocked :
                LET members == ActiveIn(category)
                    mine == {i \in DOMAIN entries : entries[i].category = category}
                IN  /\ Cardinality(mine) = 1
                    /\ \A i \in mine :
                          /\ entries[i].product_count = Cardinality(members)
                          /\ entries[i].total_stock = SumSet(members, [id \in members |-> products[id].stock])
                          /\ entries[i].total_value =
                                SumSet(members, [id \in members |-> products[id].stock * products[id].price])
           /\ \A i \in DOMAIN entries : entries[i].category \in stocked
           /\ resp.body.total_products = SumOver(entries, "product_count")
           /\ resp.body.total_stock_value = SumOver(entries, "total_value")
           /\ resp.body.low_stock_products =
                 Cardinality({id \in DOMAIN products : products[id].is_active /\ products[id].stock < 10})

\* the positions of the sales dated from the start of day from to the end of
\* day to, a missing bound leaving that side open
SalesWithin(from, to) ==
    {i \in DOMAIN sales :
        /\ from # NoDay => sales[i].date_sold >= from * Hours24
        /\ to # NoDay => sales[i].date_sold <= to * Hours24 + (Hours24 - 1)}

\* the positions of the sales dated in the calendar month of the clock
SalesThisMonth ==
    {i \in DOMAIN sales :
        sales[i].date_sold \div (DaysPerMonth * Hours24) = now \div (DaysPerMonth * Hours24)}

\* C18: a sales summary aggregates exactly the sales dated in the inclusive
\* range it is given: total_sales = total_revenue = the sum of their totals,
\* total_items = the sum of their quantities, all zero when none match; the
\* current calendar month stands in only when no bound at all was given.
C18_SalesSummaryOverGivenRange ==
    (resp.op = "GetSalesSummary" /\ resp.kind = "OK") =>
       LET counted == IF resp.req.from = NoDay /\ resp.req.to = NoDay
                      THEN SalesThisMonth
                      ELSE SalesWithin(resp.req.from, resp.req.to)
           totals == SumSet(counted, [i \in counted |-> sales[i].total])
       IN  /\ resp.body.total_sales = totals
           /\ resp.body.total_revenue = totals
           /\ resp.body.total_items = SumSet(counted, [i \in counted |-> sales[i].quantity])

\* C19: sales by product over a given range has exactly one entry for every
\* product id with a sale in the range, deleted products included, with
\* total_sold the sum of the quantities and total_revenue the sum of the totals
\* of that product's sales in the range, the entries in descending order of
\* total_revenue, and product_name that of the product as stored now.
C19_SalesByProductPerSoldProduct ==
    (resp.op = "GetSalesByProduct" /\ resp.kind = "OK" /\ resp.req.from # NoDay /\ resp.req.to # NoDay) =>
       LET entries == resp.body
           counted == SalesWithin(resp.req.from, resp.req.to)
           sold == {sales[i].product_id : i \in counted}
       IN  /\ \A id \in sold :
                LET mine == {i \in counted : sales[i].product_id = id}
                    listed == {k \in DOMAIN entries : entries[k].product_id = id}
                IN  /\ Cardinality(listed) = 1
                    /\ \A k \in listed :
                          /\ entries[k].total_sold = SumSet(mine, [i \in mine |-> sales[i].quantity])
                          /\ entries[k].total_revenue = SumSet(mine, [i \in mine |-> sales[i].total])
                          /\ id \in DOMAIN products => entries[k].product_name = products[id].name
           /\ \A k \in DOMAIN entries : entries[k].product_id \in sold
           /\ \A k, l \in DOMAIN entries : k < l => entries[k].total_revenue >= entries[l].total_revenue

ExportOps == {"ExportSales", "SalesUseCase.ExportSales"}

\* C20: an export in a format other than csv fails with UnsupportedFormat and
\* emits nothing; a csv export emits the header ID, Product ID, Product Name,
\* Quantity, Price, Total, Date Sold and then exactly one row per sale in the
\* range (the header alone when none matches), the product name of a sale
\* whose product is no longer stored being Unknown.
C20_ExportCsvOnly ==
    (resp.op \in ExportOps /\ resp.kind # "ValidationError") =>
       /\ resp.req.format # "csv" => resp.kind = "UnsupportedFormat" /\ "body" \notin DOMAIN resp
       /\ (resp.req.format = "csv" /\ resp.kind = "OK") =>
             LET csv == resp.body.csv IN
             /\ csv[1] = <<"ID", "Product ID", "Product Name", "Quantity", "Price", "Total", "Date Sold">>
             /\ (resp.req.from # NoDay /\ resp.req.to # NoDay) =>
                   /\ Len(csv) = 1 + Cardinality(SalesWithin(resp.req.from, resp.req.to))
                   /\ \A i \in SalesWithin(resp.req.from, resp.req.to) :
                         Cardinality({r \in 2..Len(csv) : csv[r][1] = i}) = 1
             /\ \A r \in 2..Len(csv) : csv[r][2] \notin DOMAIN products => csv[r][3] = "Unknown"

----------------------------------------------------------------------------
(* Properties of the admin routes *)

\* the request in slot w carries "Bearer" and a token the server issued that
\* has not expired
CarriesValidToken(w) ==
    /\ Len(auth[w]) = 2
    /\ auth[w][1] = "Bearer"
    /\ auth[w][2] \in tokens
    /\ now < auth[w][2].exp

\* C15: on every admin route the handler runs only for a request with a valid
\* token whose role is admin; without a token, with a header that is not
\* Bearer or with an invalid token the answer is Unauthorized, with a valid
\* token of another role it is Forbidden, and a rejection changes no stored state.
C15_AdminRoutesGated ==
    [][\A w \in Slots :
          (pc[w] = "idle" /\ pc'[w] # "idle" /\ ~(CarriesValidToken(w) /\ auth[w][2].role = "admin")) =>
             /\ pc'[w] = "replied"
             /\ resp'.w = w
             /\ resp'.op \in AdminRoutes
             /\ resp'.kind = IF CarriesValidToken(w) THEN "Forbidden" ELSE "Unauthorized"
             /\ "body" \notin DOMAIN resp'
             /\ <<products, sales, categories, users, call[w]>>' = <<products, sales, categories, users, call[w]>>]_vars

\* after an administrator recorded a sale, a request with the user's valid
\* token is refused as Forbidden
C15_Witness ==
    /\ Len(sales) = 1
    /\ resp.kind = "Forbidden"
    /\ resp.req.authorization[2].role = "user"
    /\ now < resp.req.authorization[2].exp

----------------------------------------------------------------------------
(* Properties of the file store *)

\* the file names whose lower-cased extension is .jpg, .jpeg, .png, .gif or .webp
ImageNames ==
    {<<"a", "jpg">>, <<"a", "JPG">>, <<"a", "jpeg">>, <<"a", "Png">>, <<"a", "gif">>,
     <<"a", "webp">>, <<"a", "txt", "jpg">>}

\* C21: an upload is accepted if and only if its size is at most 5 MiB, its
\* declared MIME type is an allowed image type and its lower-cased extension
\* is in the allow-list; a larger file is rejected as TooLarge whatever its
\* type, a file within the limit with another type or extension as
\* UnsupportedType, and SaveFile stores nothing for a rejected file.
C21_UploadAcceptedIffValid ==
    [][\A w \in W :
         (pc[w] = "idle" /\ resp'.w = w /\ resp'.op = "SaveFile") =>
            LET header == resp'.req
                small == header.size <= 5242880
                image == /\ header.content_type \in
                               {"image/jpeg", "image/jpg", "image/png", "image/gif", "image/webp"}
                         /\ header.filename \in ImageNames
                rejected == resp'.kind \in {"TooLarge", "UnsupportedType"}
            IN  /\ ~rejected <=> (small /\ image)
                /\ ~small => resp'.kind = "TooLarge"
                /\ (small /\ ~image) => resp'.kind = "UnsupportedType"
                /\ rejected => disk' = disk]_vars

\* a text file renamed to .jpg that still declares text/plain has been
\* refused and the disk holds what it held
C21_Witness ==
    /\ resp.op = "SaveFile"
    /\ resp.kind = "UnsupportedType"
    /\ resp.req.filename = <<"a", "txt", "jpg">>
    /\ resp.req.content_type = "text/plain"
    /\ resp.req.size = 5242880
    /\ disk = OutsideFiles

\* the upload directory holds the file
InUploadDir(file) == Len(file) > 2 /\ file[1] = <<"uploads">> /\ file[2] = <<"products">>

\* C22: DeleteFile never removes a file outside the upload directory: for
\* every path that resolves outside it, paths that leave it through ".." and
\* paths into a sibling directory with the same textual prefix included, it
\* returns an error and the disk is unchanged.
C22_DeleteStaysInUploadDir ==
    [][\A w \in W :
         (pc[w] = "idle" /\ resp'.w = w /\ resp'.op = "DeleteFile"
            /\ resp'.req.file_path # <<>> /\ ~InUploadDir(Located(resp'.req.file_path)))
            => resp'.kind # "OK" /\ disk' = disk]_vars

\* the files that back the uploaded-file images of the stored products
Referenced(ps) ==
    UNION {{Located(ps[id].images[i].file_path) :
               i \in {j \in DOMAIN ps[id].images : ~ps[id].images[j].is_url}} :
           id \in DOMAIN ps}

\* C23: a create-product or update-product request with file uploads that
\* ends in failure (a later file refused or not saved, the product not
\* found, the storage write failed) leaves in the upload directory none of
\* the files this request saved: the disk holds no file it did not hold when
\* the request arrived, and none of the files its handler recorded as saved.
C23_FailedUploadLeavesNoFile ==
    [][\A w \in W :
         (pc[w] # "replied" /\ pc'[w] = "replied"
            /\ resp'.op \in {"CreateProductFiles", "UpdateProductFiles"}
            /\ resp'.kind \in {"ValidationError", "UploadRejected", "NotFound", "StorageFailure"})
            => /\ pc[w] = "idle" => disk' \subseteq disk
               /\ \A i \in DOMAIN Uploaded(call[w]) : Located(Uploaded(call[w])[i]) \notin disk']_vars

\* C24: when a successful update replaces a product's images, or a product
\* is deleted, the files that backed the uploaded-file images removed from
\* the product are no longer in the upload directory.
C24_RemovedImagesLoseTheirFiles ==
    [][\A w \in W :
         (pc[w] # "replied" /\ pc'[w] = "replied" /\ resp'.kind = "OK"
            /\ resp'.op \in {"UpdateProduct", "UpdateProductFiles", "DeleteProduct"})
            => (Referenced(products) \ Referenced(products')) \cap disk' = {}]_vars

----------------------------------------------------------------------------
(* Properties of concurrent calls *)

\* C25: under every interleaving of the storage reads and writes of CreateSale
\* and validated UpdateStock calls on one product, the stored stock is >= 0 in
\* every reachable state, oversubscribing sales included.
C25_StockNonNegativeInterleaved ==
    \A id \in DOMAIN products : products[id].stock >= 0

\* one sale has sold the product out while the other, admitted against the
\* stock read before, still has its stock write to do
C25_Witness ==
    /\ \E w \in W :
         /\ pc[w] = "sale_stock"
         /\ call[w].req.quantity > products["p1"].stock
    /\ resp.op = "CreateSale" /\ resp.kind = "Created"
    /\ products["p1"].stock = 0
    /\ Len(sales) = 2

\* C26: when a CreateSale of quantity q and an UpdateStock(n) on one product
\* run concurrently and both succeed, the final stock is n or n - q: the
\* stock write of a sale that comes after the update (no other sale has been
\* recorded, so the stored stock differs from the stock the sale read only
\* through the update) leaves n or n - q, never a value computed from the
\* stock read before the update.
C26_SaleKeepsStockUpdate ==
    [][\A w \in W :
         (/\ pc[w] = "sale_stock" /\ resp'.w = w /\ resp'.kind = "Created"
          /\ Len(sales) = 1
          /\ products[call[w].req.product_id].stock # call[w].product.stock)
         => products'[call[w].req.product_id].stock \in
               {products[call[w].req.product_id].stock,
                products[call[w].req.product_id].stock - call[w].req.quantity}]_vars

\* the product a call in flight addresses
Target(c) == IF c.op = "CreateSale" THEN c.req.product_id ELSE c.req.id

\* C27: CreateSale and UpdateStock report success only if their stock write
\* was applied to a stored product, also when DeleteProduct removes the
\* product between the existence check and the write; and CreateSale records
\* no sale of a product that is absent when the sale is persisted.
C27_SuccessMeansStockWritten ==
    [][\A w \in W :
         /\ (pc[w] \in {"sale_stock", "stock_write"} /\ resp'.w = w
                /\ resp'.kind \in {"Created", "OK"})
               => Target(call[w]) \in DOMAIN products'
         /\ (pc[w] = "sale_create" /\ Len(sales') > Len(sales))
               => Target(call[w]) \in DOMAIN products]_vars

----------------------------------------------------------------------------
(* Properties of the accounts *)

\* C28: the decision of RequireAuth followed by RequireAdmin depends only on
\* the presented token, the secret and the clock: whatever has become of the
\* stored users since the token was issued (its user deleted, deactivated or
\* given another role), a request is let through exactly when it carries an
\* unexpired issued token whose role at issue was admin, RequireAuth alone
\* lets through every unexpired issued token, and the handler is given the
\* role the token was issued with.
C28_GateIgnoresStoredUsers ==
    [][\A w \in W :
         (pc[w] = "idle" /\ pc'[w] # "idle") =>
            LET refused == resp'.w = w /\ resp'.kind \in {"Unauthorized", "Forbidden"} IN
            /\ resp'.op # "GetProfile" =>
                  (~refused <=> (/\ CarriesValidToken(w)
                                 /\ IssuedUsers[auth[w][2].user_id].role = "admin"))
            /\ resp'.op = "GetProfile" =>
                  /\ ~refused <=> CarriesValidToken(w)
                  /\ resp'.kind = "OK" =>
                        resp'.body.claims.role = IssuedUsers[auth[w][2].user_id].role]_vars

\* the administrator's account is gone, or is no administrator's any more,
\* and a stock update with its token has gone through
C28_Witness ==
    /\ resp.op = "UpdateStock" /\ resp.kind = "OK"
    /\ auth[1][2].user_id = "u2"
    /\ \/ "u2" \notin DOMAIN users
       \/ users["u2"].role = "user"
       \/ ~users["u2"].is_active

\* C29: requests made without a valid admin token, on a system that has no
\* administrator, never store a user with role admin and never obtain a token
\* with role admin; every stored user's role is admin or user.
C29_NoAdminFromPublicRoutes ==
    /\ \A id \in DOMAIN users : users[id].role \in {"admin", "user"}
    /\ \A id \in DOMAIN users : users[id].role # "admin"
    /\ \A token \in tokens : token.role # "admin"

----------------------------------------------------------------------------
(* Properties of the two CreateSale use cases *)

\* a sale without its price and total
Priceless(sale) ==
    [product_id |-> sale.product_id, quantity |-> sale.quantity, date_sold |-> sale.date_sold]

\* C30: in every state that calls of the two CreateSale use cases, run one at
\* a time, can reach, the two agree on every request and every storage
\* failure: the same error, the same products (stock and every other field),
\* and sales that are the same but for price and total, which are taken from
\* the request by SaleUseCase and from the catalog by SalesUseCase.
C30_CreateSaleTwinsAgree ==
    \A req \in SaleRequests, fault \in SaleFaults :
       LET wired == SaleUseCaseCreateSale(products, sales, req, fault)
           unwired == SalesUseCaseCreateSale(products, sales, req, fault)
       IN  /\ wired.err = unwired.err
           /\ wired.products = unwired.products
           /\ Len(wired.sales) = Len(unwired.sales)
           /\ \A i \in DOMAIN wired.sales :
                 Priceless(wired.sales[i]) = Priceless(unwired.sales[i])
           /\ Len(wired.sales) > Len(sales) =>
                 LET mine == wired.sales[Len(wired.sales)]
                     theirs == unwired.sales[Len(unwired.sales)]
                 IN  /\ mine.price = req.price
                     /\ mine.total = req.price * req.quantity
                     /\ theirs.price = products[req.product_id].price
                     /\ theirs.total = products[req.product_id].price * req.quantity

\* both use cases have sold the first product, one unit each, at prices that differ
C30_Witness ==
    /\ Len(sales) = 2
    /\ sales[1].product_id = "p1" /\ sales[2].product_id = "p1"
    /\ sales[1].price # sales[2].price
    /\ products["p1"].stock = MaxStock - 2
    /\ resp.op = "SalesUseCase.CreateSale" /\ resp.kind = "nil"

====
